---- MODULE Spec2Model ----
(***************************************************************************)
(* Model of the termimg media player: the bounded frame buffer             *)
(* (AsyncVideoBuffer) with its production worker and smart pre-render      *)
(* worker, the playback loop of process_video with its input-handler       *)
(* thread, and the full pre-render worker (CompleteVideoRenderer).         *)
(*                                                                         *)
(* A frame is represented by its sequence index in the decoder's output.   *)
(* queue.Queue operations are atomic (they run under the queue's mutex);   *)
(* every other statement of a thread may interleave with the other         *)
(* threads, so each thread is cut into steps at its queue operations and   *)
(* at its reads and writes of shared fields.                               *)
(***************************************************************************)
EXTENDS Integers, Sequences, FiniteSets, TLC

\* ---- bounds -------------------------------------------------------------
NumFrames == 3      \* frames of the video given to the buffer's callers
PlayFrames == 3     \* frames of the video played by process_video
MaxBuf == 2         \* max_buffer_size given to AsyncVideoBuffer.__init__
MaxStarts == 2      \* production workers ever started on one buffer
MaxSkipped == 2     \* range of the skipped-frame counters
MaxRenders == 2     \* frames the smart pre-render worker takes from the buffer
MaxTaken == 3       \* frames the pre-render worker takes where its buffer fills up
MaxTime == 3        \* wall-clock instants 0..MaxTime, in units of 0.1 s
MaxKeys == 2        \* keys the user presses during the playback
CvrFrames == 2      \* frames the extraction gives to a full pre-render run
MaxRuns == 2        \* runs started on one CompleteVideoRenderer
MemSpan == 2        \* measured usages lie within MemSpan MB of the critical threshold
MaxExtraMb == 2     \* additional_mb given to is_memory_safe
MaxFps == 30        \* range of the target and of the achieved frame rate
MaxSyncs == 4       \* sync points of one playback
ChannelStep == 17   \* the colour channels tried are the multiples of it in 0..255
ReplayFrames == 3   \* frames a playback from pre-rendered frames is asked to show
MaxReplayTime == 5  \* instants of the clock of that playback
TickBuf == 6         \* frames each buffer holds when a late playback loop is entered
MaxBehind == 8       \* instants the clock is ahead of start_time at that moment
MaxDrift == 60      \* measured drifts lie within MaxDrift tenths of a second
MaxStamp == 2       \* instants 0..MaxStamp of the clock the MemoryMonitor reads
CacheFrames == 102  \* grids of the pre-render whose playback fills frame_cache
VmFrames == 17      \* frames of the video a VideoManager has extracted

\* ---- values taken from the code --------------------------------------------
Fps == 1                \* args.fps in frames per time unit (10 frames per second)
PauseSleep == 1         \* time.sleep(0.1) at the end of the pause branch
CheckInterval == 2      \* max(1, min(int(args.fps / 4), 10)) for args.fps = 10
RawSkipCap == 5         \* min(frames_to_skip - 1, 5)
RenderedSkipCap == 3    \* min(frames_to_skip - 1, 3)

PreloadFrames == MaxBuf   \* preload_frames (same default as max_buffer_size)
Workers == 1..MaxStarts
Runs == 1..MaxRuns
NoFrame == -1             \* Python None where a frame is expected
NoGrid == <<NoFrame, 0>>  \* Python None where a grid of the CompleteVideoRenderer is expected
\* percentages extract_frames reports while ffmpeg runs
ExtractLevels == {40, 100}

WarningThresholdMb == 500    \* warning_threshold_mb of MemoryMonitor.__init__
CriticalThresholdMb == 800   \* critical_threshold_mb of MemoryMonitor.__init__
MB == 1024 * 1024            \* bytes per MB
MaxCorrection == 500         \* max_correction = 0.5 s, in milliseconds
SignificantDrift == 50       \* abs(drift) > 0.05 s, in milliseconds
OverloadDrift == 500         \* drift > 0.5 s in the smart-sync branch, in milliseconds
CvrCacheLimit == 100         \* "if len(self.frame_cache) > 100"
VmCacheLimit == 15           \* max_cache_size = 15

VARIABLES
  \* AsyncVideoBuffer fields
  buffer,              \* self.buffer          (FIFO of frame indices)
  rendered_buffer,     \* self.rendered_buffer (FIFO of frame indices)
  is_extracting,       \* self.is_extracting
  extraction_complete, \* self.extraction_complete
  preload_complete,    \* self.preload_complete
  skipped_frames,      \* self.skipped_frames
  stream_process,      \* self.stream_process: 0 = None, w = Popen of worker w
  is_rendering,        \* self.is_rendering
  render_complete,     \* self.render_complete
  \* production workers (one thread per successful start_extraction)
  pcProd,              \* [Workers -> position of the worker]
  srcPos,              \* [Workers -> index of the next frame on the pipe]
  procAlive,           \* [Workers -> decoder process launched and not terminated]
  started,             \* number of workers started so far
  videoLen,            \* number of frames the decoder delivers for the video
  \* smart pre-render worker
  pcPre,               \* position of _pre_render_frames
  preFrame,            \* frame held by the worker between its get and its puts
  preRenders,          \* frames the worker has taken from the buffer so far
  \* the thread that calls the buffer's methods
  pcMain,              \* position of the calling thread
  callLeft,            \* iterations left in the running skip loop
  callRet,             \* value returned by the last finished call
  \* process_video: the playback loop and the input-handler thread
  smart_sync,          \* hardware_capability != "high"
  paused,              \* paused
  frame_count,         \* frame_count
  frame_skip_count,    \* frame_skip_count
  start_time,          \* start_time
  frames_to_skip,      \* frames_to_skip of the running tick
  rendered_frame_data, \* rendered_frame_data
  frame_buffer,        \* frame_buffer: the frame to render (NoFrame = None)
  now,                 \* time.time()
  wake,                \* instant at which the running time.sleep ends
  pcInput,             \* InputHandler._input_thread: "off", "run" or "dead"
  \* CompleteVideoRenderer fields and its threads
  cvr_is_rendering,    \* self.is_rendering of the CompleteVideoRenderer
  is_cancelled,        \* self.is_cancelled
  progress,            \* self.progress
  processed_frames,    \* self.processed_frames
  total_frames,        \* self.total_frames
  cvrRuns,             \* runs started so far
  render_thread,       \* self.render_thread: 0 = None, r = thread of run r
  pcRender,            \* [Runs -> position of _render_video_thread]
  frameIdx,            \* [Runs -> i of the per-frame loop]
  runFrames,           \* [Runs -> len(frame_files)]
  pcCancel,            \* position of the caller in cancel_rendering
  cancelledMidRun,     \* history: the current run was cancelled while in progress
  cancelledInLoop,     \* history: runs whose per-frame loop cancel_rendering interrupted
  persisted,           \* indices i with a grid file rendered_<i>.dat in rendered_frames_dir
  use_high_quality,    \* [Runs -> use_high_quality of the render thread]
  processed_img,       \* [Runs -> frame whose image processed_img holds, NoFrame = unbound]
  extractPos,          \* [Runs -> last percentage extract_frames reported, -1 = none]
  erroredRuns,         \* history: runs whose thread was ended by an exception
  downgraded,          \* history: live runs whose memory guard turned high quality off
  \* history (not program state)
  keys,                \* keys read so far (key polls and input-handler thread)
  quit_requested,      \* a quit was issued (key poll or quit callback)
  resumed,             \* the playback was resumed and no tick has started since
  dropped,             \* frames the production workers dropped on queue.Full
  streamFailed,        \* the streaming strategy failed in some worker
  fallbackAttempted,   \* _extract_with_temp_files was entered
  probeFailed,         \* workers whose metadata probe gave no frame dimensions
  callEntry,           \* the running call: what it found when it was entered
  \* MemoryMonitor
  current_usage,       \* self.current_usage, in bytes
  peak_usage,          \* self.peak_usage, in bytes
  memArg,              \* additional_mb of the last is_memory_safe call
  memRet,              \* <<value returned by the last is_memory_safe call>>
  last_check_time,     \* self.last_check_time
  memNow,              \* time.time() as the MemoryMonitor reads it
  monitoring,          \* self.monitoring
  pcMon,               \* position of _monitor_thread
  monSample,           \* current_usage, the local of _monitor_thread
  monPeak,             \* max(...) the monitor thread has computed and not yet stored
  pcChk,               \* position of the thread that called is_memory_safe
  chkPeak,             \* max(...) that caller has computed and not yet stored
  \* PerformanceAnalyzer
  hardware_capability, \* self.hardware_capability
  target_fps,          \* self.target_fps
  current_fps,         \* get_current_fps() at the last get_adaptive_parameters call
  perfRet,             \* <<dict returned by the last get_adaptive_parameters call>>
  \* process_video: drift correction
  drift_correction,    \* drift_correction, in milliseconds
  \* TerminalRenderer.rgb_to_ansi
  ansiArg,             \* rgb of the last rgb_to_ansi call
  ansiRet,             \* <<value returned by the last rgb_to_ansi call>>
  \* process_video: playback from the pre-rendered frames
  pcReplay,            \* position of the playback loop
  loop,                \* args.loop
  hq_total_frames,     \* total_frames of the playback
  hq_frame_count,      \* frame_count
  hq_start_time,       \* start_time
  hq_paused,           \* paused
  hq_now,              \* the wall clock, in frame durations
  requested,           \* history: index of the last complete_renderer.get_frame call
  \* the in-memory front caches
  frame_cache,         \* CompleteVideoRenderer.frame_cache: its grids in insertion order
  cvrAsked,            \* frame_num of the last CompleteVideoRenderer.get_frame call
  cvrGot,              \* grid that call returned (NoGrid = None)
  vm_frame_cache,      \* VideoManager.frame_cache: its keys in insertion order
  vmAsked,             \* frame_number of the last VideoManager.get_frame call
  \* AsyncVideoBuffer._extract_with_temp_files
  extraction_progress, \* self.extraction_progress
  pcErr,               \* position of the read_stderr thread
  tempProc,            \* the decoder process: "none", "run", "ok" or "failed"
  tempPos,             \* index of the next file of "for frame_path in frame_files"
  tempCount,           \* frame_count
  errPipe,             \* frame numbers of the status lines waiting in process.stderr
  workerWrote,         \* history: the production worker has updated extraction_progress
  stopReturned,        \* history: stop() has returned and no extraction started since
  tick_removed         \* history: frames the catch-up skipping removed in the running tick

bufVars == <<buffer, rendered_buffer, is_extracting, extraction_complete,
             preload_complete, skipped_frames, stream_process, is_rendering,
             render_complete>>
prodVars == <<pcProd, srcPos, procAlive, started, videoLen>>
preVars == <<pcPre, preFrame, preRenders>>
callVars == <<pcMain, callLeft, callRet>>
histVars == <<dropped, streamFailed, fallbackAttempted>>
playVars == <<smart_sync, paused, frame_count, frame_skip_count, start_time,
              frames_to_skip, rendered_frame_data, frame_buffer, now, wake, pcInput>>
playHist == <<keys, quit_requested, resumed>>
apiHist == <<callEntry, probeFailed>>

memVars == <<current_usage, peak_usage, memArg, memRet, last_check_time, memNow>>
monVars == <<monitoring, pcMon, monSample, monPeak, pcChk, chkPeak>>
perfVars == <<hardware_capability, target_fps, current_fps, perfRet>>
ansiVars == <<ansiArg, ansiRet>>
replayVars == <<pcReplay, loop, hq_total_frames, hq_frame_count, hq_start_time,
                hq_paused, hq_now, requested>>
cacheVars == <<frame_cache, cvrAsked, cvrGot, vm_frame_cache, vmAsked>>
tempVars == <<extraction_progress, pcErr, tempProc, tempPos, tempCount, errPipe,
              workerWrote>>
extraVars == <<cacheVars, tempVars, stopReturned>>
toolRest == <<memVars, monVars, perfVars, drift_correction, ansiVars, replayVars,
              extraVars>>
toolVars == <<toolRest, tick_removed>>
\* The same without stopReturned.
notStop == <<memVars, monVars, perfVars, drift_correction, ansiVars, replayVars,
             cacheVars, tempVars, tick_removed>>

cvrLocals == <<use_high_quality, processed_img, extractPos>>
cvrHist == <<erroredRuns, downgraded>>
cvrVars == <<cvr_is_rendering, is_cancelled, progress, processed_frames, total_frames,
             cvrRuns, render_thread, pcRender, frameIdx, runFrames, pcCancel,
             cancelledMidRun, cancelledInLoop, persisted, cvrLocals, cvrHist>>

\* Everything but the CompleteVideoRenderer.
playerVars == <<bufVars, prodVars, preVars, callVars, histVars, playVars, playHist,
               apiHist, toolVars>>

vars == <<playerVars, cvrVars>>

\* ---- queue.Queue ----------------------------------------------------------
\* Queue.full() / Queue.empty() / Queue.qsize()
Full(q) == Len(q) >= MaxBuf
Empty(q) == Len(q) = 0

\* Queue.put on a queue with room: the item goes to the tail.
QPut(q, x) == Append(q, x)

\* Faults of a put on a full queue: the item is appended past the capacity;
\* the oldest item is evicted to make room.
QPutOverfill(q, x) == Append(q, x)
QPutEvict(q, x) == Append(Tail(q), x)

\* Queue.put that finds the queue full until its timeout (or with
\* block=False): raises queue.Full and leaves the queue as it was.
QPutFull(q, x) == q

\* Fault of a get: the newest item is removed instead of the oldest.
QDropLast(q) == SubSeq(q, 1, Len(q) - 1)

\* Queue.get on a non-empty queue: the head is removed.
QRest(q) == Tail(q)

\* A get without a timeout on an empty queue never returns.
GetBlocksForever == FALSE

\* get_frame(block=True, timeout=0.1) and buffer.get(block=True, timeout=0.5)
\* are given a timeout, get_frame(block=False, ...) and
\* get_rendered_frame(block=False) do not block: a get on an empty queue ends
\* in queue.Empty.
GetTimesOut == TRUE

\* ---- production worker: _extract_frames_thread -----------------------------
\* Value returned by _extract_with_ffmpeg: the function ends in "return True"
\* after its try/except/finally, whether or not the streaming failed.
ExtractWithFfmpegReturn(failed) == TRUE

\* "frame_width = width or video_info.get("width", 0)" (and the same for the
\* height): start_extraction is called without width and height, so the
\* dimensions are known exactly when the metadata probe gave them.
DimensionsKnown(probed) == probed

\* _extract_with_ffmpeg up to the launch of the decoder.  The streaming
\* strategy fails when the frame dimensions are unknown (ValueError) or Popen
\* raises; the except clause swallows the error and the finally clause clears
\* is_extracting.
ProdLaunch(w) ==
  /\ pcProd[w] = "launch"
  /\ \E probed \in BOOLEAN, ok \in BOOLEAN :
       /\ probeFailed' = IF probed THEN probeFailed ELSE probeFailed \cup {w}
       /\ IF DimensionsKnown(probed) /\ ok
          THEN /\ stream_process' = w
               /\ procAlive' = [procAlive EXCEPT ![w] = TRUE]
               /\ pcProd' = [pcProd EXCEPT ![w] = "read"]
               /\ UNCHANGED <<is_extracting, streamFailed>>
          ELSE /\ streamFailed' = TRUE
               /\ is_extracting' = FALSE
               /\ pcProd' = [pcProd EXCEPT ![w] = "returned"]
               /\ UNCHANGED <<stream_process, procAlive>>
  /\ UNCHANGED <<buffer, rendered_buffer, extraction_complete, preload_complete,
                 skipped_frames, is_rendering, render_complete, srcPos, started, videoLen,
                 preVars, callVars, dropped, fallbackAttempted,
                 playVars, playHist, cvrVars, callEntry, toolVars>>

\* End of the streaming loop: extraction_complete is set, then the finally
\* clause clears is_extracting and terminates self.stream_process, whichever
\* worker launched it.
StreamEnd(w) ==
  /\ extraction_complete' = TRUE
  /\ is_extracting' = FALSE
  /\ procAlive' = IF stream_process = 0 THEN procAlive
                  ELSE [procAlive EXCEPT ![stream_process] = FALSE]
  /\ stream_process' = 0
  /\ pcProd' = [pcProd EXCEPT ![w] = "returned"]

\* One turn of "while self.is_extracting": the loop test and the read of one
\* frame from the pipe.  A short read (end of the video, or the decoder was
\* terminated) ends the loop.
ProdRead(w) ==
  /\ pcProd[w] = "read"
  /\ IF is_extracting /\ procAlive[w] /\ srcPos[w] < videoLen
     THEN /\ pcProd' = [pcProd EXCEPT ![w] = "put"]
          /\ UNCHANGED <<extraction_complete, is_extracting, procAlive, stream_process>>
     ELSE StreamEnd(w)
  /\ UNCHANGED <<buffer, rendered_buffer, preload_complete, skipped_frames,
                 is_rendering, render_complete, srcPos, started, videoLen, preVars, callVars,
                 dropped, streamFailed, fallbackAttempted,
                 playVars, playHist, cvrVars, apiHist, toolVars>>

\* self.buffer.put(frame, timeout=0.1) with room in the buffer.
ProdPutOk(w) ==
  /\ pcProd[w] = "put"
  /\ ~Full(buffer)
  /\ buffer' = QPut(buffer, srcPos[w])
  /\ srcPos' = [srcPos EXCEPT ![w] = @ + 1]
  /\ pcProd' = [pcProd EXCEPT ![w] = "read"]
  /\ UNCHANGED <<rendered_buffer, is_extracting, extraction_complete, preload_complete,
                 skipped_frames, stream_process, is_rendering, render_complete,
                 procAlive, started, videoLen, preVars, callVars, dropped, streamFailed, fallbackAttempted,
                 playVars, playHist, cvrVars, apiHist, toolVars>>

\* Counter update of the "except queue.Full" clause: the clause is a bare
\* "continue", skipped_frames is not touched.
SkippedAfterDrop(n) == n

\* self.buffer.put(frame, timeout=0.1) that times out on a full buffer:
\* queue.Full is caught and the worker goes on with the next frame.
ProdPutFull(w) ==
  /\ pcProd[w] = "put"
  /\ Full(buffer)
  /\ buffer' = QPutFull(buffer, srcPos[w])
  /\ srcPos' = [srcPos EXCEPT ![w] = @ + 1]
  /\ skipped_frames' = SkippedAfterDrop(skipped_frames)
  /\ dropped' = dropped + 1
  /\ pcProd' = [pcProd EXCEPT ![w] = "read"]
  /\ UNCHANGED <<rendered_buffer, is_extracting, extraction_complete, preload_complete,
                 stream_process, is_rendering, render_complete, procAlive, started, videoLen,
                 preVars, callVars, streamFailed, fallbackAttempted,
                 playVars, playHist, cvrVars, apiHist, toolVars>>

\* _extract_frames_thread after _extract_with_ffmpeg returned: the fallback is
\* taken only when the returned value is false; then extraction_complete is
\* set and the finally clause clears is_extracting and the decoder handle.
ProdThreadEnd(w) ==
  /\ pcProd[w] = "returned"
  /\ IF ~ExtractWithFfmpegReturn(streamFailed)
     THEN /\ fallbackAttempted' = TRUE
          /\ pcProd' = [pcProd EXCEPT ![w] = "tempfiles"]
          /\ UNCHANGED <<extraction_complete, is_extracting, procAlive, stream_process>>
     ELSE /\ extraction_complete' = TRUE
          /\ is_extracting' = FALSE
          /\ procAlive' = IF stream_process = 0 THEN procAlive
                          ELSE [procAlive EXCEPT ![stream_process] = FALSE]
          /\ stream_process' = 0
          /\ pcProd' = [pcProd EXCEPT ![w] = "done"]
          /\ UNCHANGED fallbackAttempted
  /\ UNCHANGED <<buffer, rendered_buffer, preload_complete, skipped_frames,
                 is_rendering, render_complete, srcPos, started, videoLen, preVars, callVars,
                 dropped, streamFailed,
                 playVars, playHist, cvrVars, apiHist, toolVars>>

Producer ==
  \E w \in Workers :
    \/ ProdLaunch(w)
    \/ ProdRead(w)
    \/ ProdPutOk(w)
    \/ ProdPutFull(w)
    \/ ProdThreadEnd(w)

\* ---- smart pre-render worker: _pre_render_frames ---------------------------
\* The finally clause of _pre_render_frames.
PreEnd ==
  /\ is_rendering' = FALSE
  /\ render_complete' = TRUE
  /\ pcPre' = "done"

\* The test of "while self.is_rendering and (not self.extraction_complete or
\* not self.buffer.empty())".
PreLoopUpTo(limit) ==
  /\ pcPre = "loop"
  /\ IF is_rendering /\ (~extraction_complete \/ ~Empty(buffer))
     THEN /\ preRenders < limit
          /\ pcPre' = "get"
          /\ UNCHANGED <<is_rendering, render_complete>>
     ELSE PreEnd
  /\ UNCHANGED <<buffer, rendered_buffer, is_extracting, extraction_complete,
                 preload_complete, skipped_frames, stream_process, preFrame,
                 preRenders, prodVars, callVars, histVars,
                 playVars, playHist, cvrVars, apiHist, toolVars>>

PreLoop == PreLoopUpTo(MaxRenders)

\* frame = self.buffer.get(block=True, timeout=0.5): the head of the buffer
\* is taken.
PreGetOk ==
  /\ pcPre = "get"
  /\ ~Empty(buffer)
  /\ preFrame' = Head(buffer)
  /\ buffer' = QRest(buffer)
  /\ preRenders' = preRenders + 1
  /\ pcPre' = "render"
  /\ UNCHANGED <<rendered_buffer, is_extracting, extraction_complete, preload_complete,
                 skipped_frames, stream_process, is_rendering, render_complete,
                 prodVars, callVars, histVars,
                 playVars, playHist, cvrVars, apiHist, toolVars>>

\* The get times out (queue.Empty): wait and retry while the extraction is
\* running, leave the loop once it is complete.
PreGetEmpty ==
  /\ pcPre = "get"
  /\ Empty(buffer)
  /\ GetTimesOut
  /\ IF ~extraction_complete
     THEN /\ pcPre' = "loop"
          /\ UNCHANGED <<is_rendering, render_complete>>
     ELSE PreEnd
  /\ UNCHANGED <<buffer, rendered_buffer, is_extracting, extraction_complete,
                 preload_complete, skipped_frames, stream_process, preFrame,
                 preRenders, prodVars, callVars, histVars,
                 playVars, playHist, cvrVars, apiHist, toolVars>>

\* self.rendered_buffer.put((pixel_data, frame), block=False).  On queue.Full
\* the except clause sleeps and the loop goes on without the frame.
PrePutRendered ==
  /\ pcPre = "render"
  /\ IF ~Full(rendered_buffer)
     THEN /\ rendered_buffer' = QPut(rendered_buffer, preFrame)
          /\ pcPre' = "reput"
          /\ UNCHANGED preFrame
     ELSE /\ rendered_buffer' = QPutFull(rendered_buffer, preFrame)
          /\ pcPre' = "loop"
          /\ preFrame' = NoFrame
  /\ UNCHANGED <<buffer, is_extracting, extraction_complete, preload_complete,
                 skipped_frames, stream_process, is_rendering, render_complete,
                 preRenders, prodVars, callVars, histVars,
                 playVars, playHist, cvrVars, apiHist, toolVars>>

\* self.buffer.put(frame, block=False): the frame goes back to the main
\* buffer, at its tail; on queue.Full it is not put back.
PreReput ==
  /\ pcPre = "reput"
  /\ buffer' = IF ~Full(buffer) THEN QPut(buffer, preFrame)
               ELSE QPutFull(buffer, preFrame)
  /\ preFrame' = NoFrame
  /\ pcPre' = "loop"
  /\ UNCHANGED <<rendered_buffer, is_extracting, extraction_complete, preload_complete,
                 skipped_frames, stream_process, is_rendering, render_complete,
                 preRenders, prodVars, callVars, histVars,
                 playVars, playHist, cvrVars, apiHist, toolVars>>

PreRender == PreLoop \/ PreGetOk \/ PreGetEmpty \/ PrePutRendered \/ PreReput

\* The same worker followed for MaxTaken frames, one more than a rendered
\* buffer of MaxBuf frames can take.
PreRenderLong ==
  PreLoopUpTo(MaxTaken) \/ PreGetOk \/ PreGetEmpty \/ PrePutRendered \/ PreReput

\* start_pre_rendering: refused while the rendering thread is alive.
StartPreRendering ==
  /\ pcPre \in {"off", "done"}
  /\ is_rendering' = TRUE
  /\ render_complete' = FALSE
  /\ pcPre' = "loop"
  /\ UNCHANGED <<buffer, rendered_buffer, is_extracting, extraction_complete,
                 preload_complete, skipped_frames, stream_process, preFrame,
                 preRenders, prodVars, histVars>>

\* ---- AsyncVideoBuffer methods, run by the calling thread --------------------
\* No thread other than the caller can touch self.buffer: every production
\* worker is before its start or past its loop, and the smart pre-render
\* worker is not running.
Quiet ==
  /\ \A w \in Workers : pcProd[w] \in {"idle", "returned", "done"}
  /\ pcPre \in {"off", "done"}

\* What a call finds when it is entered (skip_frames(count)) or when its wait
\* is over (start_extraction): the buffer, the count asked for, the
\* skipped-frame counter, and whether the caller is alone on the buffer.
EntryOf(count) ==
  [buf |-> buffer, n |-> count, skipped |-> skipped_frames, quiet |-> Quiet]

\* No call is running.
NoEntry == [buf |-> <<>>, n |-> 0, skipped |-> 0, quiet |-> FALSE]

\* Fault of start_extraction: the flags and the buffer are reset before the
\* call finds out that it must be refused.
StartExtractionResetFirst(ok) ==
  /\ buffer' = <<>>
  /\ extraction_complete' = FALSE
  /\ preload_complete' = FALSE
  /\ IF is_extracting \/ ~ok
     THEN /\ callRet' = 0
          /\ UNCHANGED <<is_extracting, prodVars>>
     ELSE /\ is_extracting' = TRUE
          /\ started' = started + 1
          /\ pcProd' = [pcProd EXCEPT ![started + 1] = "launch"]
          /\ pcMain' = "preload"
          /\ UNCHANGED <<srcPos, procAlive, videoLen, callRet>>
  /\ UNCHANGED <<rendered_buffer, skipped_frames, stream_process, is_rendering,
                 render_complete>>

\* start_extraction up to the start of the worker thread.  ok = the video
\* file exists and the decode tool can be run.  A refused start returns
\* false to the caller.
StartExtraction(ok) ==
  IF is_extracting \/ ~ok
  THEN /\ callRet' = 0
       /\ UNCHANGED <<bufVars, prodVars>>
  ELSE /\ is_extracting' = TRUE
       /\ extraction_complete' = FALSE
       /\ preload_complete' = FALSE
       /\ buffer' = <<>>
       /\ started' = started + 1
       /\ pcProd' = [pcProd EXCEPT ![started + 1] = "launch"]
       /\ pcMain' = "preload"
       /\ UNCHANGED <<rendered_buffer, skipped_frames, stream_process, is_rendering,
                      render_complete, srcPos, procAlive, videoLen, callRet>>

\* Fault of the preload gate: one buffered frame is enough.
PreloadReachedEarly(count) == count >= 1

\* "if preload_count >= self.preload_frames" in the preload wait.
PreloadReached(count) == count >= PreloadFrames

\* One turn of the preload wait.  The wait ends when the worker has cleared
\* is_extracting, when preload_frames frames are buffered (full preload), or
\* when the preload timeout has elapsed.
PreloadPoll ==
  /\ pcMain = "preload"
  /\ IF ~is_extracting
     THEN pcMain' = "preload_end" /\ UNCHANGED preload_complete
     ELSE IF PreloadReached(Len(buffer))
     THEN pcMain' = "preload_end" /\ preload_complete' = TRUE
     ELSE \E timeout \in BOOLEAN :
            /\ pcMain' = IF timeout THEN "preload_end" ELSE "preload"
            /\ UNCHANGED preload_complete
  /\ callEntry' = IF pcMain' = "preload_end" THEN EntryOf(0) ELSE callEntry
  /\ UNCHANGED <<buffer, rendered_buffer, is_extracting, extraction_complete,
                 skipped_frames, stream_process, is_rendering, render_complete,
                 prodVars, callLeft, callRet>>

\* Fault of the partial path: the preload is never completed after the wait.
PreloadNoPartial ==
  /\ pcMain = "preload_end"
  /\ pcMain' = "preload_ret"
  /\ UNCHANGED <<bufVars, prodVars, callLeft, callRet, callEntry>>

\* After the wait: "if not self.preload_complete and self.buffer.qsize() > 0"
\* completes the preload in the partial state.
PreloadPartial ==
  /\ pcMain = "preload_end"
  /\ preload_complete' = (preload_complete \/ Len(buffer) > 0)
  /\ pcMain' = "preload_ret"
  /\ UNCHANGED <<buffer, rendered_buffer, is_extracting, extraction_complete,
                 skipped_frames, stream_process, is_rendering, render_complete,
                 prodVars, callLeft, callRet, callEntry>>

\* The end of start_extraction: the value returned is
\* "self.preload_complete or self.buffer.qsize() > 0", a second reading of
\* the buffer's size.
PreloadEnd(next) ==
  /\ pcMain = "preload_ret"
  /\ callRet' = IF preload_complete \/ Len(buffer) > 0 THEN 1 ELSE 0
  /\ pcMain' = next
  /\ callEntry' = NoEntry
  /\ UNCHANGED <<bufVars, prodVars, callLeft>>

\* get_frame(block, timeout) with a timeout or block=False: the head of the
\* buffer, or None (queue.Empty is caught).
GetFrame ==
  /\ IF Empty(buffer)
     THEN callRet' = NoFrame /\ UNCHANGED buffer
     ELSE callRet' = Head(buffer) /\ buffer' = QRest(buffer)
  /\ UNCHANGED <<rendered_buffer, is_extracting, extraction_complete, preload_complete,
                 skipped_frames, stream_process, is_rendering, render_complete,
                 prodVars, pcMain, callLeft>>

\* get_rendered_frame(block=False).
GetRenderedFrame ==
  /\ IF Empty(rendered_buffer)
     THEN callRet' = NoFrame /\ UNCHANGED rendered_buffer
     ELSE callRet' = Head(rendered_buffer) /\ rendered_buffer' = QRest(rendered_buffer)
  /\ UNCHANGED <<buffer, is_extracting, extraction_complete, preload_complete,
                 skipped_frames, stream_process, is_rendering, render_complete,
                 prodVars, pcMain, callLeft>>

\* skip_frames(count): entry.
SkipFramesCall(count) ==
  /\ pcMain' = "skip_frames"
  /\ callLeft' = count
  /\ callRet' = 0
  /\ callEntry' = EntryOf(count)
  /\ UNCHANGED <<bufVars, prodVars>>

\* skip_frames: one turn of "for _ in range(count)"; queue.Empty ends the
\* loop, and so does the last turn.
SkipFramesStep ==
  /\ pcMain = "skip_frames"
  /\ IF callLeft > 0 /\ ~Empty(buffer)
     THEN /\ buffer' = QRest(buffer)
          /\ skipped_frames' = skipped_frames + 1
          /\ callRet' = callRet + 1
          /\ callLeft' = callLeft - 1
          /\ pcMain' = IF callLeft = 1 THEN "idle" ELSE "skip_frames"
     ELSE /\ pcMain' = "idle"
          /\ callLeft' = 0
          /\ UNCHANGED <<buffer, skipped_frames, callRet>>
  /\ callEntry' = IF pcMain' = "idle" THEN NoEntry ELSE callEntry
  /\ UNCHANGED <<rendered_buffer, is_extracting, extraction_complete, preload_complete,
                 stream_process, is_rendering, render_complete, prodVars>>

\* stop(): clears is_extracting, terminates the decoder process, then drains
\* the buffer ("while not self.buffer.empty(): get_nowait()").
Stop ==
  /\ is_extracting' = FALSE
  /\ procAlive' = IF stream_process = 0 THEN procAlive
                  ELSE [procAlive EXCEPT ![stream_process] = FALSE]
  /\ buffer' = <<>>
  /\ UNCHANGED <<rendered_buffer, extraction_complete, preload_complete, skipped_frames,
                 stream_process, is_rendering, render_complete, pcProd, srcPos, started,
                 videoLen, callVars>>

\* ---- CompleteVideoRenderer: the full pre-render worker ----------------------
\* The render thread of run r is alive.
Alive(r) == r # 0 /\ pcRender[r] \notin {"idle", "done"}

\* progress = 50 + (self.processed_frames / self.total_frames) * 50
LoopProgress(done, total) == 50 + ((done * 50) \div total)

\* is_complete(): self.progress >= 100 and not self.is_rendering
IsComplete == progress >= 100 /\ ~cvr_is_rendering

\* The run of thread r is in progress with at least one frame it has not
\* started: it is extracting, or in the per-frame loop before its last frame.
MidRun(r) ==
  /\ Alive(r)
  /\ \/ pcRender[r] = "extract"
     \/ pcRender[r] = "loop" /\ frameIdx[r] < runFrames[r]
     \/ pcRender[r] \in {"frame", "process"} /\ frameIdx[r] + 1 < runFrames[r]

\* The thread of run r is in its per-frame loop: at the test of the cancel
\* flag or processing a frame.
InLoop(r) == r # 0 /\ pcRender[r] \in {"loop", "frame", "process"}

\* get_frame(frame_num) finds the grid of a frame when its file exists in
\* self.rendered_frames_dir and loads (no call of it is made here, so the
\* in-memory frame_cache stays empty).
Retrievable(i) == i \in persisted

\* start_rendering: refused while is_rendering is set; else the run state is
\* reset, the directory render_<seconds> is made current (the directory of
\* the run before when both start in the same second) and a new render thread
\* is started.
StartRendering ==
  /\ pcCancel = "idle"
  /\ cvrRuns < MaxRuns
  /\ ~cvr_is_rendering
  /\ is_cancelled' = FALSE
  /\ progress' = 0
  /\ processed_frames' = 0
  /\ \E sameSecond \in BOOLEAN :
       persisted' = IF sameSecond /\ cvrRuns > 0 THEN persisted ELSE {}
  /\ cvrRuns' = cvrRuns + 1
  /\ render_thread' = cvrRuns + 1
  /\ pcRender' = [pcRender EXCEPT ![cvrRuns + 1] = "extract"]
  /\ cvr_is_rendering' = TRUE
  /\ cancelledMidRun' = FALSE
  /\ UNCHANGED <<total_frames, frameIdx, runFrames, pcCancel, cancelledInLoop,
                 cvrLocals, erroredRuns, downgraded, playerVars>>

\* The callback handed to extract_frames: lambda p: _update_progress(p * 0.5).
ExtractionShare(p) == p \div 2

\* extract_frames reads the time ffmpeg prints, which advances, and calls the
\* callback with min(100, int(current_time / total_duration * 100)).
RenderExtractReport(r) ==
  /\ pcRender[r] = "extract"
  /\ \E p \in ExtractLevels :
       /\ p > extractPos[r]
       /\ extractPos' = [extractPos EXCEPT ![r] = p]
       /\ progress' = ExtractionShare(p)
  /\ UNCHANGED <<cvr_is_rendering, is_cancelled, processed_frames, total_frames,
                 cvrRuns, render_thread, pcRender, frameIdx, runFrames, pcCancel,
                 cancelledMidRun, cancelledInLoop, persisted, use_high_quality,
                 processed_img, cvrHist, playerVars>>

\* _render_video_thread up to the per-frame loop: the frames are extracted
\* (ok = a frame directory came back, n = the frames in it); a failed or
\* cancelled extraction and an empty directory end the run with progress 100.
\* Else the high-quality renderer is set up (hq = its module was imported).
RenderExtract(r) ==
  /\ pcRender[r] = "extract"
  /\ extractPos' = [extractPos EXCEPT ![r] = -1]
  /\ \E ok, hq \in BOOLEAN, n \in 0..CvrFrames :
       IF ~ok \/ is_cancelled
       THEN /\ progress' = 100
            /\ cvr_is_rendering' = FALSE
            /\ pcRender' = [pcRender EXCEPT ![r] = "done"]
            /\ UNCHANGED <<total_frames, runFrames, use_high_quality>>
       ELSE /\ total_frames' = n
            /\ runFrames' = [runFrames EXCEPT ![r] = n]
            /\ IF n = 0
               THEN /\ progress' = 100
                    /\ cvr_is_rendering' = FALSE
                    /\ pcRender' = [pcRender EXCEPT ![r] = "done"]
                    /\ UNCHANGED use_high_quality
               ELSE /\ progress' = 50
                    /\ pcRender' = [pcRender EXCEPT ![r] = "loop"]
                    /\ use_high_quality' = [use_high_quality EXCEPT ![r] = hq]
                    /\ UNCHANGED cvr_is_rendering
  /\ UNCHANGED <<is_cancelled, processed_frames, cvrRuns, render_thread, frameIdx,
                 pcCancel, cancelledMidRun, cancelledInLoop, persisted,
                 processed_img, cvrHist, playerVars>>

\* "for i, frame_file in enumerate(frame_files): if self.is_cancelled: break".
RenderLoop(r) ==
  /\ pcRender[r] = "loop"
  /\ pcRender' = [pcRender EXCEPT ![r] =
                    IF frameIdx[r] < runFrames[r] /\ ~is_cancelled THEN "frame"
                    ELSE "finish"]
  /\ UNCHANGED <<cvr_is_rendering, is_cancelled, progress, processed_frames,
                 total_frames, cvrRuns, render_thread, frameIdx, runFrames, pcCancel,
                 cancelledMidRun, cancelledInLoop, persisted, cvrLocals, cvrHist,
                 playerVars>>

\* The memory guard leaves the quality as it is.
GuardedQualityKept(hq, safe) == hq

\* "if memory_monitor and not memory_monitor.is_memory_safe():
\*      use_high_quality = False"
GuardedQuality(hq, safe) == hq /\ safe

\* The head of the loop body for frame i: a frame whose file exists in the
\* current directory is counted and skipped (no progress report); else the
\* memory guard is consulted (safe = no monitor, or is_memory_safe()).
RenderFrameCheck(r) ==
  /\ pcRender[r] = "frame"
  /\ IF frameIdx[r] \in persisted
     THEN /\ processed_frames' = processed_frames + 1
          /\ frameIdx' = [frameIdx EXCEPT ![r] = @ + 1]
          /\ pcRender' = [pcRender EXCEPT ![r] = "loop"]
          /\ UNCHANGED <<use_high_quality, downgraded>>
     ELSE /\ \E safe \in BOOLEAN :
               /\ use_high_quality' =
                    [use_high_quality EXCEPT ![r] = GuardedQuality(@, safe)]
               /\ downgraded' = IF ~safe /\ use_high_quality[r]
                                THEN downgraded \cup {r} ELSE downgraded
          /\ pcRender' = [pcRender EXCEPT ![r] = "process"]
          /\ UNCHANGED <<processed_frames, frameIdx>>
  /\ UNCHANGED <<cvr_is_rendering, is_cancelled, progress, total_frames, cvrRuns,
                 render_thread, runFrames, pcCancel, cancelledMidRun,
                 cancelledInLoop, persisted, processed_img, extractPos, erroredRuns,
                 playerVars>>

\* "with open(output_path, 'wb') as f: pickle.dump(pixel_data, f)" inside
\* "try ... except (ImportError, IOError)": a failed write leaves no grid.
Saved(files, i, written) == IF written THEN files \cup {i} ELSE files

\* The rest of the loop body: the frame is loaded and processed (with high
\* quality on, processed_img is assigned only when the high-quality
\* preprocessing raised and the standard processing ran instead), resized,
\* saved, processed_frames += 1 and the progress is reported.  An exception
\* (err, processed_img read before any assignment, or the division by a
\* total_frames of 0) leaves the loop for the except and finally clauses.
RenderFrameProcess(r) ==
  /\ pcRender[r] = "process"
  /\ \E err, hqRaised, written \in BOOLEAN :
       LET img == IF use_high_quality[r] /\ ~hqRaised THEN processed_img[r]
                  ELSE frameIdx[r]
       IN  IF err \/ img = NoFrame
           THEN /\ pcRender' = [pcRender EXCEPT ![r] = "finally"]
                /\ erroredRuns' = erroredRuns \cup {r}
                /\ UNCHANGED <<processed_frames, progress, frameIdx, persisted,
                               processed_img>>
           ELSE /\ processed_img' = [processed_img EXCEPT ![r] = img]
                /\ persisted' = Saved(persisted, frameIdx[r], written)
                /\ processed_frames' = processed_frames + 1
                /\ IF total_frames = 0
                   THEN /\ pcRender' = [pcRender EXCEPT ![r] = "finally"]
                        /\ erroredRuns' = erroredRuns \cup {r}
                        /\ UNCHANGED <<progress, frameIdx>>
                   ELSE /\ progress' = LoopProgress(processed_frames', total_frames)
                        /\ frameIdx' = [frameIdx EXCEPT ![r] = @ + 1]
                        /\ pcRender' = [pcRender EXCEPT ![r] = "loop"]
                        /\ UNCHANGED erroredRuns
  /\ UNCHANGED <<cvr_is_rendering, is_cancelled, total_frames, cvrRuns, render_thread,
                 runFrames, pcCancel, cancelledMidRun, cancelledInLoop,
                 use_high_quality, extractPos, downgraded, playerVars>>

\* After the loop, whether it ran to its end or was left by the break:
\* self._update_progress(100, "Rendering completato").
RenderFinish(r) ==
  /\ pcRender[r] = "finish"
  /\ progress' = 100
  /\ pcRender' = [pcRender EXCEPT ![r] = "finally"]
  /\ UNCHANGED <<cvr_is_rendering, is_cancelled, processed_frames, total_frames,
                 cvrRuns, render_thread, frameIdx, runFrames, pcCancel, cancelledMidRun,
                 cancelledInLoop, persisted, cvrLocals, cvrHist, playerVars>>

\* The finally clause: self.is_rendering = False; the thread ends and its
\* local variables with it.
RenderFinally(r) ==
  /\ pcRender[r] = "finally"
  /\ cvr_is_rendering' = FALSE
  /\ pcRender' = [pcRender EXCEPT ![r] = "done"]
  /\ use_high_quality' = [use_high_quality EXCEPT ![r] = FALSE]
  /\ processed_img' = [processed_img EXCEPT ![r] = NoFrame]
  /\ downgraded' = downgraded \ {r}
  /\ UNCHANGED <<is_cancelled, progress, processed_frames, total_frames, cvrRuns,
                 render_thread, frameIdx, runFrames, pcCancel, cancelledMidRun,
                 cancelledInLoop, persisted, extractPos, erroredRuns, playerVars>>

RenderThread ==
  \E r \in Runs :
    \/ RenderExtractReport(r)
    \/ RenderExtract(r)
    \/ RenderLoop(r)
    \/ RenderFrameCheck(r)
    \/ RenderFrameProcess(r)
    \/ RenderFinish(r)
    \/ RenderFinally(r)

\* cancel_rendering up to the join: the cancel flag is set; with a live
\* render thread the caller joins it for at most 2 s.
CancelRendering ==
  /\ pcCancel = "idle"
  /\ is_cancelled' = TRUE
  /\ cancelledMidRun' = (cancelledMidRun \/ MidRun(render_thread))
  /\ cancelledInLoop' = IF InLoop(render_thread)
                        THEN cancelledInLoop \cup {render_thread}
                        ELSE cancelledInLoop
  /\ IF Alive(render_thread)
     THEN pcCancel' = "join" /\ UNCHANGED cvr_is_rendering
     ELSE cvr_is_rendering' = FALSE /\ UNCHANGED pcCancel
  /\ UNCHANGED <<progress, processed_frames, total_frames, cvrRuns, render_thread,
                 pcRender, frameIdx, runFrames, persisted, cvrLocals, cvrHist,
                 playerVars>>

\* The join returns, the thread having ended or the timeout having elapsed;
\* then self.is_rendering = False.
CancelJoinEnd ==
  /\ pcCancel = "join"
  /\ \E timeout \in BOOLEAN : timeout \/ ~Alive(render_thread)
  /\ cvr_is_rendering' = FALSE
  /\ pcCancel' = "idle"
  /\ UNCHANGED <<is_cancelled, progress, processed_frames, total_frames, cvrRuns,
                 render_thread, pcRender, frameIdx, runFrames, cancelledMidRun,
                 cancelledInLoop, persisted, cvrLocals, cvrHist, playerVars>>

\* ---- the in-memory front caches ------------------------------------------------
\* Every variable but those of the two caches and of the CompleteVideoRenderer.
cacheRest == <<bufVars, prodVars, preVars, callVars, histVars, playVars, playHist,
               apiHist, memVars, monVars, perfVars, drift_correction, ansiVars,
               replayVars, tempVars, stopReturned, tick_removed>>

\* The indices a playback asks for in turn: the one it asked last (paused),
\* the next one, and 0 again after the last one (args.loop).
Requests(asked, total) ==
  {j \in 0..(total - 1) : j = asked \/ j = asked + 1 \/ (j = 0 /\ asked = total - 1)}

\* Positions of the key in a cache kept in insertion order.
Cached(cache, key) == {k \in 1..Len(cache) : cache[k][1] = key}

\* "if len(self.frame_cache) > 100: del self.frame_cache[next(iter(...))]"
\* followed by "self.frame_cache[frame_num] = data"
CvrLoad(cache, grid) ==
  Append(IF Len(cache) > CvrCacheLimit THEN Tail(cache) ELSE cache, grid)

\* CompleteVideoRenderer.get_frame(frame_num): the cached grid; else the grid
\* file of the current directory, loaded (loaded = pickle.load did not raise)
\* and cached; else None.  A grid is <<index, run whose directory it was
\* loaded from>>.
CvrGetFrame(frame_num, loaded) ==
  /\ cvrAsked' = frame_num
  /\ IF Cached(frame_cache, frame_num) # {}
     THEN /\ cvrGot' = frame_cache[CHOOSE k \in Cached(frame_cache, frame_num) : TRUE]
          /\ UNCHANGED frame_cache
     ELSE IF frame_num \in persisted /\ loaded
     THEN /\ frame_cache' = CvrLoad(frame_cache, <<frame_num, cvrRuns>>)
          /\ cvrGot' = <<frame_num, cvrRuns>>
     ELSE /\ cvrGot' = NoGrid
          /\ UNCHANGED frame_cache

\* A get_frame call of the playback, once a run was started
\* (rendered_frames_dir is set), for the outcomes given of the load.
CallCvrGetFrame(outcomes) ==
  /\ cvrRuns >= 1
  /\ \E frame_num \in Requests(cvrAsked, total_frames), loaded \in outcomes :
       CvrGetFrame(frame_num, loaded)
  /\ UNCHANGED <<cvrVars, vm_frame_cache, vmAsked, cacheRest>>

\* "if len(self.frame_cache) > max_cache_size: self.frame_cache.pop(...)"
\* followed by "self.frame_cache[frame_path] = img"
VmLoad(cache, key) ==
  Append(IF Len(cache) > VmCacheLimit THEN Tail(cache) ELSE cache, <<key>>)

\* VideoManager.get_frame(frame_number) on a video of VmFrames extracted
\* frames whose files exist: the cached image; else the image is loaded and
\* cached, or (alt: Image.open / load raised and the second attempt with
\* convert('RGB') went through) cached without the size test.
VmGetFrame(frame_number, alt) ==
  /\ vmAsked' = frame_number
  /\ IF Cached(vm_frame_cache, frame_number) # {}
     THEN UNCHANGED vm_frame_cache
     ELSE IF alt
     THEN vm_frame_cache' = Append(vm_frame_cache, <<frame_number>>)
     ELSE vm_frame_cache' = VmLoad(vm_frame_cache, frame_number)

CallVmGetFrame ==
  /\ \E frame_number \in Requests(vmAsked, VmFrames), alt \in BOOLEAN :
       VmGetFrame(frame_number, alt)
  /\ UNCHANGED <<cvrVars, frame_cache, cvrAsked, cvrGot, cacheRest>>

\* ---- arithmetic --------------------------------------------------------------
Min(a, b) == IF a < b THEN a ELSE b
Max(a, b) == IF a > b THEN a ELSE b
Abs(a) == IF a < 0 THEN -a ELSE a

\* ---- MemoryMonitor --------------------------------------------------------------
\* self.critical_threshold = critical_threshold_mb * 1024 * 1024
critical_threshold == CriticalThresholdMb * MB

\* Values get_memory_usage() returns, in bytes: around the critical threshold
\* to the byte, and 500 MB and 850 MB.
Usages ==
  {critical_threshold + d * MB + b : d \in (-MemSpan)..MemSpan, b \in {-1, 0, 1}}
    \cup {WarningThresholdMb * MB, 850 * MB}

\* MemoryMonitor.__init__
InitMonitor ==
  /\ current_usage = 0
  /\ peak_usage = 0
  /\ memArg = 0
  /\ memRet = <<>>
  /\ last_check_time = 0
  /\ memNow = 0
  /\ monitoring = FALSE
  /\ pcMon = "off"
  /\ monSample = 0
  /\ monPeak = 0
  /\ pcChk = "idle"
  /\ chkPeak = 0

\* Fault of the comparison: a projected usage equal to the threshold is safe.
IsMemorySafeInclusive(current, additional_mb) ==
  current + additional_mb * MB <= critical_threshold

\* "projected_usage < self.critical_threshold" with
\* projected_usage = current + additional_mb * 1024 * 1024
IsMemorySafe(current, additional_mb) ==
  current + additional_mb * MB < critical_threshold

\* self.last_check_time = time.time(): the clock has not gone back since it
\* was last read.
Stamp ==
  \E t \in memNow..MaxStamp :
    /\ memNow' = t
    /\ last_check_time' = t

\* is_memory_safe(additional_mb) with no other thread on the monitor:
\* check_memory() measures the usage and updates current_usage, peak_usage
\* and last_check_time, then the projection is compared.
CallIsMemorySafe ==
  /\ pcMon = "off"
  /\ pcChk = "idle"
  /\ \E measured \in Usages, additional_mb \in 0..MaxExtraMb :
       /\ current_usage' = measured
       /\ peak_usage' = Max(peak_usage, measured)
       /\ memArg' = additional_mb
       /\ memRet' = <<IsMemorySafe(measured, additional_mb)>>
  /\ Stamp
  /\ UNCHANGED <<bufVars, prodVars, preVars, callVars, histVars, playVars, playHist,
                 apiHist, cvrVars, monVars, perfVars, drift_correction, ansiVars,
                 replayVars, extraVars, tick_removed>>

\* ---- MemoryMonitor: the monitoring worker and a caller of is_memory_safe --------
\* Every variable but those of the MemoryMonitor.
monRest == <<bufVars, prodVars, preVars, callVars, histVars, playVars, playHist,
             apiHist, cvrVars, perfVars, drift_correction, ansiVars, replayVars,
             extraVars, tick_removed>>

\* Values get_memory_usage() returns while the monitoring worker runs.
MonSamples == {WarningThresholdMb * MB, critical_threshold}

\* start_monitoring(): refused while self.monitoring is set.
StartMonitoring ==
  /\ ~monitoring
  /\ pcMon \in {"off", "done"}
  /\ monitoring' = TRUE
  /\ pcMon' = "test"
  /\ UNCHANGED <<memVars, monSample, monPeak, pcChk, chkPeak, monRest>>

\* stop_monitoring(): the flag is cleared; the join is bounded by 1 s.
StopMonitoring ==
  /\ monitoring
  /\ monitoring' = FALSE
  /\ UNCHANGED <<memVars, pcMon, monSample, monPeak, pcChk, chkPeak, monRest>>

\* "while self.monitoring" and "current_usage = self.get_memory_usage()"
MonSample ==
  /\ pcMon = "test"
  /\ IF monitoring
     THEN \E measured \in MonSamples :
            /\ monSample' = measured
            /\ pcMon' = "current"
     ELSE /\ pcMon' = "done"
          /\ UNCHANGED monSample
  /\ UNCHANGED <<memVars, monitoring, monPeak, pcChk, chkPeak, monRest>>

\* "self.current_usage = current_usage"
MonStoreCurrent ==
  /\ pcMon = "current"
  /\ current_usage' = monSample
  /\ pcMon' = "max"
  /\ UNCHANGED <<peak_usage, memArg, memRet, last_check_time, memNow, monitoring,
                 monSample, monPeak, pcChk, chkPeak, monRest>>

\* "max(self.peak_usage, current_usage)": the field is read and the maximum
\* computed, before the result is stored.
MonReadPeak ==
  /\ pcMon = "max"
  /\ monPeak' = Max(peak_usage, monSample)
  /\ pcMon' = "peak"
  /\ UNCHANGED <<memVars, monitoring, monSample, pcChk, chkPeak, monRest>>

\* "self.peak_usage = ..."
MonStorePeak ==
  /\ pcMon = "peak"
  /\ peak_usage' = monPeak
  /\ pcMon' = "stamp"
  /\ UNCHANGED <<current_usage, memArg, memRet, last_check_time, memNow, monitoring,
                 monSample, monPeak, pcChk, chkPeak, monRest>>

\* "self.last_check_time = time.time()", then the worker sleeps check_interval.
MonStamp ==
  /\ pcMon = "stamp"
  /\ Stamp
  /\ monSample' = 0
  /\ monPeak' = 0
  /\ pcMon' = "test"
  /\ UNCHANGED <<current_usage, peak_usage, memArg, memRet, monitoring, pcChk,
                 chkPeak, monRest>>

MonitorThread ==
  MonSample \/ MonStoreCurrent \/ MonReadPeak \/ MonStorePeak \/ MonStamp

\* memory_monitor.is_memory_safe() of the render thread enters check_memory():
\* "self.current_usage = self.get_memory_usage()"
ChkSample ==
  /\ pcChk = "idle"
  /\ pcMon # "off"
  /\ \E measured \in MonSamples : current_usage' = measured
  /\ memArg' = 0
  /\ pcChk' = "max"
  /\ UNCHANGED <<peak_usage, memRet, last_check_time, memNow, monitoring, pcMon,
                 monSample, monPeak, chkPeak, monRest>>

\* "max(self.peak_usage, self.current_usage)": both fields are read.
ChkReadPeak ==
  /\ pcChk = "max"
  /\ chkPeak' = Max(peak_usage, current_usage)
  /\ pcChk' = "peak"
  /\ UNCHANGED <<memVars, monitoring, pcMon, monSample, monPeak, monRest>>

\* "self.peak_usage = ..."
ChkStorePeak ==
  /\ pcChk = "peak"
  /\ peak_usage' = chkPeak
  /\ pcChk' = "stamp"
  /\ UNCHANGED <<current_usage, memArg, memRet, last_check_time, memNow, monitoring,
                 pcMon, monSample, monPeak, chkPeak, monRest>>

\* "self.last_check_time = time.time()"
ChkStamp ==
  /\ pcChk = "stamp"
  /\ Stamp
  /\ chkPeak' = 0
  /\ pcChk' = "return"
  /\ UNCHANGED <<current_usage, peak_usage, memArg, memRet, monitoring, pcMon,
                 monSample, monPeak, monRest>>

\* "return self.current_usage" and the comparison of is_memory_safe.
ChkReturn ==
  /\ pcChk = "return"
  /\ memRet' = <<IsMemorySafe(current_usage, memArg)>>
  /\ pcChk' = "idle"
  /\ UNCHANGED <<current_usage, peak_usage, memArg, last_check_time, memNow,
                 monitoring, pcMon, monSample, monPeak, chkPeak, monRest>>

CheckMemory == ChkSample \/ ChkReadPeak \/ ChkStorePeak \/ ChkStamp \/ ChkReturn

\* ---- PerformanceAnalyzer --------------------------------------------------------
\* Frame rates are whole frames per second; the fps of the returned dict is
\* in tenths of a frame per second, smoothness and skip_ratio are in tenths.
Tiers == {"low", "medium", "high"}

\* PerformanceAnalyzer.__init__ with the default target_fps
InitAnalyzer ==
  /\ hardware_capability = "high"
  /\ target_fps = 24
  /\ current_fps = 24
  /\ perfRet = <<>>

\* get_optimal_fps
GetOptimalFps(tier, target) ==
  IF tier = "low" THEN Min(15, target)
  ELSE IF tier = "medium" THEN Min(24, target)
  ELSE target

\* get_adaptive_parameters, given get_current_fps() and get_optimal_fps():
\* "current_fps < optimal_fps * 0.7" and "current_fps < optimal_fps * 0.9".
GetAdaptiveParameters(current, optimal) ==
  IF 10 * current < 7 * optimal
  THEN [fps |-> Max(120, 11 * current), smoothness |-> 8, skip_ratio |-> 2]
  ELSE IF 10 * current < 9 * optimal
  THEN [fps |-> 9 * optimal, smoothness |-> 9, skip_ratio |-> 1]
  ELSE [fps |-> 10 * optimal, smoothness |-> 10, skip_ratio |-> 0]

\* A call of get_adaptive_parameters() when the rolling window gives the
\* frame rate achieved.
CallGetAdaptiveParameters ==
  /\ \E achieved \in 1..MaxFps :
       /\ current_fps' = achieved
       /\ perfRet' = <<GetAdaptiveParameters(achieved,
                          GetOptimalFps(hardware_capability, target_fps))>>
  /\ UNCHANGED <<bufVars, prodVars, preVars, callVars, histVars, playVars, playHist,
                 apiHist, cvrVars, memVars, monVars, hardware_capability, target_fps,
                 drift_correction, ansiVars, replayVars, extraVars, tick_removed>>

\* ---- process_video: drift correction at a sync point ---------------------------
\* drift_correction = 0 before the loop
InitSync == drift_correction = 0

\* Measured drifts, in milliseconds: the tenths of a second and the two
\* drifts at the limit of significance.
Drifts ==
  {100 * d : d \in (-MaxDrift)..MaxDrift} \cup {-SignificantDrift, SignificantDrift}

\* max(min(correction, max_correction), -max_correction) with
\* correction = -drift * 0.1
BoundedCorrection(drift) ==
  Max(Min(-(drift \div 10), MaxCorrection), -MaxCorrection)

\* The adjustment of a sync point (frame_count % sync_interval == 0), for the
\* drift measured and for slow = (actual_fps < fps_threshold).
AdjustedCorrection(dc, drift, slow) ==
  IF Abs(drift) > SignificantDrift
  THEN IF smart_sync
       THEN IF slow /\ drift > OverloadDrift
            THEN 0
            ELSE dc + BoundedCorrection(drift)
       ELSE dc + BoundedCorrection(drift)
  ELSE dc

SyncPoint ==
  /\ \E drift \in Drifts, slow \in BOOLEAN :
       drift_correction' = AdjustedCorrection(drift_correction, drift, slow)
  /\ Abs(drift_correction') <= MaxSyncs * MaxCorrection
  /\ UNCHANGED <<bufVars, prodVars, preVars, callVars, histVars, playVars, playHist,
                 apiHist, cvrVars, memVars, monVars, perfVars, ansiVars, replayVars,
                 extraVars, tick_removed>>

\* MemoryMonitor.__init__, PerformanceAnalyzer.__init__ and the start of
\* process_video
\* ---- TerminalRenderer.rgb_to_ansi -----------------------------------------------
\* The channel values the calls are made with.
Channels == {c \in 0..255 : c % ChannelStep = 0}

\* No call of rgb_to_ansi has been made.
InitAnsi == ansiArg = <<0, 0, 0>> /\ ansiRet = <<>>

\* int(c / 255 * 5): the float product truncated, which for the integers
\* 0..255 is the floor of 5c / 255.
CubeIndex(c) == (c * 5) \div 255

\* int(((r / 255.0) * 23) + 0.5), for the integers 0..255.
GrayIndex(c) == (46 * c + 255) \div 510

\* rgb_to_ansi(rgb)
RgbToAnsi(rgb) ==
  LET r == rgb[1]
      g == rgb[2]
      b == rgb[3]
  IN  IF r = g /\ g = b
      THEN IF r = 0 THEN 16
           ELSE IF r = 255 THEN 231
           ELSE 232 + GrayIndex(r)
      ELSE 16 + CubeIndex(r) * 36 + CubeIndex(g) * 6 + CubeIndex(b)

\* A call rgb_to_ansi(ansiArg).
CallRgbToAnsi ==
  /\ ansiRet' = <<RgbToAnsi(ansiArg)>>
  /\ UNCHANGED <<bufVars, prodVars, preVars, callVars, histVars, playVars, playHist,
                 apiHist, cvrVars, memVars, monVars, perfVars, drift_correction, ansiArg,
                 replayVars, extraVars, tick_removed>>

\* The pre-rendered playback has not been entered.
InitNoReplay ==
  /\ pcReplay = "off"
  /\ loop = FALSE
  /\ hq_total_frames = 0
  /\ hq_frame_count = 0
  /\ hq_start_time = 0
  /\ hq_paused = FALSE
  /\ hq_now = 0
  /\ requested = NoFrame

\* "self.frame_cache = {}" of CompleteVideoRenderer.__init__ and of
\* VideoManager.__init__; no get_frame call has been made.
InitCache ==
  /\ frame_cache = <<>>
  /\ cvrAsked = NoFrame
  /\ cvrGot = NoGrid
  /\ vm_frame_cache = <<>>
  /\ vmAsked = NoFrame

\* _extract_with_temp_files has not been entered.
InitNoTemp ==
  /\ extraction_progress = 0
  /\ pcErr = "off"
  /\ tempProc = "none"
  /\ tempPos = 0
  /\ tempCount = 0
  /\ errPipe = <<>>
  /\ workerWrote = FALSE

InitExtra == InitCache /\ InitNoTemp /\ stopReturned = FALSE

InitTools ==
  InitMonitor /\ InitAnalyzer /\ InitSync /\ InitAnsi /\ InitNoReplay /\ InitExtra

\* ---- AsyncVideoBuffer._extract_with_temp_files --------------------------------
\* Every variable the file-sequence strategy leaves alone.
tempRest == <<rendered_buffer, is_extracting, skipped_frames, stream_process,
              is_rendering, render_complete, procAlive, started, videoLen,
              preVars, callVars, histVars, playVars, playHist, apiHist, cvrVars,
              memVars, monVars, perfVars, drift_correction, ansiVars, replayVars,
              cacheVars, stopReturned, tick_removed>>

\* The method is entered: subprocess.Popen launches the decoder and
\* stderr_thread.start() starts read_stderr; the worker goes into
\* process.wait().
TempEnter ==
  /\ pcProd[1] = "idle"
  /\ tempProc = "none"
  /\ tempProc' = "run"
  /\ pcErr' = "read"
  /\ pcProd' = [pcProd EXCEPT ![1] = "wait"]
  /\ UNCHANGED <<buffer, extraction_complete, preload_complete, srcPos,
                 extraction_progress, tempPos, tempCount, errPipe, workerWrote,
                 tempRest>>

\* The decoder writes one more frame file and may print a status line
\* "frame= n fps= ..." on its stderr.
TempDecode ==
  /\ tempProc = "run"
  /\ srcPos[1] < videoLen
  /\ srcPos' = [srcPos EXCEPT ![1] = @ + 1]
  /\ \/ errPipe' = Append(errPipe, srcPos[1] + 1)
     \/ UNCHANGED errPipe
  /\ UNCHANGED <<buffer, extraction_complete, preload_complete, pcProd,
                 extraction_progress, pcErr, tempProc, tempPos, tempCount,
                 workerWrote, tempRest>>

\* The decoder exits, with return code 0 or not; the lines it printed stay in
\* the pipe.
TempExit ==
  /\ tempProc = "run"
  /\ tempProc' \in {"ok", "failed"}
  /\ UNCHANGED <<buffer, extraction_complete, preload_complete, pcProd, srcPos,
                 extraction_progress, pcErr, tempPos, tempCount, errPipe,
                 workerWrote, tempRest>>

\* read_stderr: one turn of "for line in process.stderr" on a status line,
\* self.extraction_progress = min(99, frame_num // 5).
ErrRead ==
  /\ pcErr = "read"
  /\ errPipe # <<>>
  /\ extraction_progress' = Min(99, Head(errPipe) \div 5)
  /\ errPipe' = Tail(errPipe)
  /\ UNCHANGED <<buffer, extraction_complete, preload_complete, pcProd, srcPos,
                 pcErr, tempProc, tempPos, tempCount, workerWrote, tempRest>>

\* read_stderr reaches the end of the stream: the decoder has exited and
\* every line has been read.
ErrEof ==
  /\ pcErr = "read"
  /\ errPipe = <<>>
  /\ tempProc \in {"ok", "failed"}
  /\ pcErr' = "done"
  /\ UNCHANGED <<buffer, extraction_complete, preload_complete, pcProd, srcPos,
                 extraction_progress, tempProc, tempPos, tempCount, errPipe,
                 workerWrote, tempRest>>

ReadStderr == ErrRead \/ ErrEof

\* process.wait() returns: False on a return code other than 0 or with no
\* frame file; else the files are listed and the loading loop is entered.
\* The stderr thread is not joined.
TempWaitReturn ==
  /\ pcProd[1] = "wait"
  /\ tempProc \in {"ok", "failed"}
  /\ pcProd' = [pcProd EXCEPT ![1] =
                  IF tempProc = "failed" \/ srcPos[1] = 0 THEN "returned" ELSE "load"]
  /\ UNCHANGED <<buffer, extraction_complete, preload_complete, srcPos,
                 extraction_progress, pcErr, tempProc, tempPos, tempCount,
                 errPipe, workerWrote, tempRest>>

\* The progress the loading loop reports, int((frame_count / total_frames) * 100)
\* capped at 100.
LoadProgress(count, total) == Min(100, (count * 100) \div total)

\* One turn of "for frame_path in frame_files" with total_frames =
\* len(frame_files): self.buffer.put(img, timeout=0.1), frame_count += 1 and,
\* every tenth frame and at the last one, the progress update; on queue.Full
\* the turn ends and the loop goes to the next file.
TempLoad ==
  /\ pcProd[1] = "load"
  /\ tempPos < srcPos[1]
  /\ tempPos' = tempPos + 1
  /\ IF ~Full(buffer)
     THEN /\ buffer' = QPut(buffer, tempPos)
          /\ tempCount' = tempCount + 1
          /\ IF tempCount' % 10 = 0 \/ tempCount' = srcPos[1]
             THEN /\ extraction_progress' = LoadProgress(tempCount', srcPos[1])
                  /\ workerWrote' = TRUE
                  /\ preload_complete' =
                       (preload_complete \/ tempCount' >= PreloadFrames)
             ELSE UNCHANGED <<extraction_progress, workerWrote, preload_complete>>
     ELSE UNCHANGED <<buffer, tempCount, extraction_progress, workerWrote,
                      preload_complete>>
  /\ UNCHANGED <<extraction_complete, pcProd, srcPos, pcErr, tempProc, errPipe,
                 tempRest>>

\* After the last file: self.extraction_complete = True,
\* self.extraction_progress = 100, return True.
TempFinish ==
  /\ pcProd[1] = "load"
  /\ tempPos = srcPos[1]
  /\ extraction_complete' = TRUE
  /\ extraction_progress' = 100
  /\ workerWrote' = TRUE
  /\ pcProd' = [pcProd EXCEPT ![1] = "returned"]
  /\ UNCHANGED <<buffer, preload_complete, srcPos, pcErr, tempProc, tempPos,
                 tempCount, errPipe, tempRest>>

ExtractWithTempFiles == TempEnter \/ TempWaitReturn \/ TempLoad \/ TempFinish

TempDecoder == TempDecode \/ TempExit

\* ---- Spec: AsyncVideoBuffer driven through its methods ----------------------
\* AsyncVideoBuffer.__init__
InitBuffer ==
  /\ buffer = <<>>
  /\ rendered_buffer = <<>>
  /\ is_extracting = FALSE
  /\ extraction_complete = FALSE
  /\ preload_complete = FALSE
  /\ skipped_frames = 0
  /\ stream_process = 0
  /\ is_rendering = FALSE
  /\ render_complete = FALSE
  /\ pcProd = [w \in Workers |-> "idle"]
  /\ srcPos = [w \in Workers |-> 0]
  /\ procAlive = [w \in Workers |-> FALSE]
  /\ started = 0
  /\ pcPre = "off"
  /\ preFrame = NoFrame
  /\ preRenders = 0
  /\ dropped = 0
  /\ streamFailed = FALSE
  /\ fallbackAttempted = FALSE
  /\ probeFailed = {}
  /\ callEntry = NoEntry

\* CompleteVideoRenderer.__init__
InitRenderer ==
  /\ cvr_is_rendering = FALSE
  /\ is_cancelled = FALSE
  /\ progress = 0
  /\ processed_frames = 0
  /\ total_frames = 0
  /\ cvrRuns = 0
  /\ render_thread = 0
  /\ pcRender = [r \in Runs |-> "idle"]
  /\ frameIdx = [r \in Runs |-> 0]
  /\ runFrames = [r \in Runs |-> 0]
  /\ pcCancel = "idle"
  /\ cancelledMidRun = FALSE
  /\ cancelledInLoop = {}
  /\ persisted = {}
  /\ use_high_quality = [r \in Runs |-> FALSE]
  /\ processed_img = [r \in Runs |-> NoFrame]
  /\ extractPos = [r \in Runs |-> -1]
  /\ erroredRuns = {}
  /\ downgraded = {}

\* The variables of process_video before the video branch is entered.
InitPlayback ==
  /\ paused = FALSE
  /\ frame_count = 0
  /\ frame_skip_count = 0
  /\ start_time = 0
  /\ frames_to_skip = 0
  /\ rendered_frame_data = NoFrame
  /\ frame_buffer = NoFrame
  /\ now = 0
  /\ wake = 0
  /\ keys = 0
  /\ quit_requested = FALSE
  /\ resumed = FALSE
  /\ tick_removed = 0

Init ==
  /\ InitBuffer
  /\ InitPlayback
  /\ InitRenderer
  /\ InitTools
  /\ videoLen \in 1..NumFrames
  /\ smart_sync = FALSE
  /\ pcInput = "off"
  /\ pcMain = "idle"
  /\ callLeft = 0
  /\ callRet = 0

\* A caller of the buffer's methods, one call at a time.  It starts one
\* extraction on the buffer (one playback session); further calls of
\* start_extraction are made while that extraction is running.
CallStartExtraction ==
  /\ pcMain = "idle"
  /\ started = 0 \/ is_extracting
  /\ \E ok \in BOOLEAN :
       /\ StartExtraction(ok)
       /\ IF is_extracting \/ ~ok THEN pcMain' = "refused" ELSE TRUE
       /\ stopReturned' = IF is_extracting \/ ~ok THEN stopReturned ELSE FALSE
  /\ UNCHANGED <<callLeft, preVars, histVars,
                 playVars, playHist, cvrVars, apiHist, notStop>>

\* start_extraction called again on the same buffer once is_extracting is
\* clear (after stop(), or after the extraction ended).
CallStartAgain ==
  /\ pcMain = "idle"
  /\ started \in 1..(MaxStarts - 1)
  /\ ~is_extracting
  /\ StartExtraction(TRUE)
  /\ stopReturned' = FALSE
  /\ UNCHANGED <<callLeft, preVars, histVars,
                 playVars, playHist, cvrVars, apiHist, notStop>>

\* "return False" of a refused start_extraction reaches the caller.
CallStartRefused ==
  /\ pcMain = "refused"
  /\ pcMain' = "idle"
  /\ UNCHANGED <<bufVars, prodVars, callLeft, callRet, preVars, histVars,
                 playVars, playHist, cvrVars, apiHist, toolVars>>

CallPreload ==
  /\ (PreloadPoll \/ PreloadPartial \/ PreloadEnd("idle"))
  /\ UNCHANGED <<preVars, histVars,
                 playVars, playHist, cvrVars, probeFailed, toolVars>>

CallGetFrame ==
  /\ pcMain = "idle"
  /\ GetFrame
  /\ UNCHANGED <<preVars, histVars,
                 playVars, playHist, cvrVars, apiHist, toolVars>>

CallGetRenderedFrame ==
  /\ pcMain = "idle"
  /\ GetRenderedFrame
  /\ UNCHANGED <<preVars, histVars,
                 playVars, playHist, cvrVars, apiHist, toolVars>>

CallSkipFrames ==
  /\ \/ /\ pcMain = "idle"
        /\ \E count \in 1..MaxBuf :
             /\ skipped_frames + count <= MaxSkipped
             /\ SkipFramesCall(count)
     \/ SkipFramesStep
  /\ UNCHANGED <<preVars, histVars,
                 playVars, playHist, cvrVars, probeFailed, toolVars>>

CallStop ==
  /\ pcMain = "idle"
  /\ Stop
  /\ stopReturned' = TRUE
  /\ UNCHANGED <<preVars, histVars,
                 playVars, playHist, cvrVars, apiHist, notStop>>

CallStartPreRendering ==
  /\ pcMain = "idle"
  /\ StartPreRendering
  /\ UNCHANGED <<callVars, playVars, playHist, cvrVars, apiHist, toolVars>>

Next ==
  \/ Producer
  \/ PreRender
  \/ CallStartExtraction
  \/ CallStartRefused
  \/ CallPreload
  \/ CallGetFrame
  \/ CallGetRenderedFrame
  \/ CallSkipFrames
  \/ CallStop
  \/ CallStartPreRendering

Spec == Init /\ [][Next]_vars

\* A CompleteVideoRenderer driven through start_rendering and
\* cancel_rendering while its render threads run.
NextCVR ==
  \/ StartRendering
  \/ RenderThread
  \/ CancelRendering
  \/ CancelJoinEnd

\* One video, nothing playing.
InitOneVideo == Init /\ videoLen = NumFrames

SpecCVR == InitOneVideo /\ [][NextCVR]_vars

\* An AsyncVideoBuffer started, stopped and started again.
NextRestart ==
  \/ Producer
  \/ CallStartExtraction
  \/ CallStartRefused
  \/ CallPreload
  \/ CallGetFrame
  \/ CallStop
  \/ CallStartAgain

SpecRestart == InitOneVideo /\ [][NextRestart]_vars

\* The buffer of a smart playback: start_extraction, start_pre_rendering,
\* and the playback taking raw and pre-rendered frames while both workers
\* run.
NextPre ==
  \/ Producer
  \/ PreRenderLong
  \/ CallStartExtraction
  \/ CallPreload
  \/ CallStartPreRendering
  \/ CallGetFrame
  \/ CallGetRenderedFrame

SpecPre == InitOneVideo /\ [][NextPre]_vars

\* _extract_with_temp_files entered on a new buffer, with its decoder, its
\* read_stderr thread and a caller taking frames.
NextTemp ==
  \/ ExtractWithTempFiles
  \/ TempDecoder
  \/ ReadStderr
  \/ CallGetFrame

SpecTemp == Init /\ [][NextTemp]_vars

\* ---- the pure functions, applied to inputs drawn from bounded sets ----------
\* Nothing is playing.
InitIdle ==
  /\ InitBuffer
  /\ InitPlayback
  /\ InitRenderer
  /\ videoLen = NumFrames
  /\ pcInput = "off"
  /\ pcMain = "idle"
  /\ callLeft = 0
  /\ callRet = 0

\* A MemoryMonitor asked is_memory_safe again and again.
InitMem == InitIdle /\ InitTools /\ smart_sync = FALSE

SpecMem == InitMem /\ [][CallIsMemorySafe]_vars

\* A MemoryMonitor whose monitoring worker samples while the render thread
\* asks is_memory_safe.
NextMon ==
  \/ StartMonitoring
  \/ StopMonitoring
  \/ MonitorThread
  \/ CheckMemory

SpecMon == InitMem /\ [][NextMon]_vars

\* A CompleteVideoRenderer after a pre-render that wrote the grids of all
\* CacheFrames frames of its video.
InitFullRender ==
  /\ cvr_is_rendering = FALSE
  /\ is_cancelled = FALSE
  /\ progress = 100
  /\ processed_frames = CacheFrames
  /\ total_frames = CacheFrames
  /\ cvrRuns = 1
  /\ render_thread = 1
  /\ pcRender = [r \in Runs |-> IF r = 1 THEN "done" ELSE "idle"]
  /\ frameIdx = [r \in Runs |-> IF r = 1 THEN CacheFrames ELSE 0]
  /\ runFrames = [r \in Runs |-> IF r = 1 THEN CacheFrames ELSE 0]
  /\ pcCancel = "idle"
  /\ cancelledMidRun = FALSE
  /\ cancelledInLoop = {}
  /\ persisted = 0..(CacheFrames - 1)
  /\ use_high_quality = [r \in Runs |-> FALSE]
  /\ processed_img = [r \in Runs |-> NoFrame]
  /\ extractPos = [r \in Runs |-> -1]
  /\ erroredRuns = {}
  /\ downgraded = {}

\* The grids of that pre-render and the frames of a VideoManager are asked
\* for in playback order; the grid files load.
InitCaches ==
  /\ InitBuffer
  /\ InitPlayback
  /\ InitFullRender
  /\ InitTools
  /\ videoLen = NumFrames
  /\ smart_sync = FALSE
  /\ pcInput = "off"
  /\ pcMain = "idle"
  /\ callLeft = 0
  /\ callRet = 0

NextCache ==
  \/ CallCvrGetFrame({TRUE})
  \/ CallVmGetFrame

SpecCache == InitCaches /\ [][NextCache]_vars

\* A CompleteVideoRenderer run again and again to the end of its worker,
\* and asked for grids meanwhile.
NextRerun ==
  \/ StartRendering
  \/ RenderThread
  \/ CallCvrGetFrame(BOOLEAN)

SpecRerun == InitOneVideo /\ [][NextRerun]_vars

\* A PerformanceAnalyzer of any capability tier and target frame rate.
InitPerf ==
  /\ InitIdle
  /\ InitMonitor
  /\ InitExtra
  /\ InitSync
  /\ InitAnsi
  /\ InitNoReplay
  /\ smart_sync = FALSE
  /\ hardware_capability \in Tiers
  /\ target_fps \in 1..MaxFps
  /\ current_fps = target_fps
  /\ perfRet = <<>>

SpecPerf == InitPerf /\ [][CallGetAdaptiveParameters]_vars

\* The sync points of a playback, with or without smart_sync.
InitSyncPoints ==
  /\ InitIdle
  /\ InitTools
  /\ smart_sync \in BOOLEAN

SpecSync == InitSyncPoints /\ [][SyncPoint]_vars

\* A TerminalRenderer asked for the code of one colour.
InitColour ==
  /\ InitIdle
  /\ InitMonitor
  /\ InitExtra
  /\ InitAnalyzer
  /\ InitSync
  /\ InitNoReplay
  /\ smart_sync = FALSE
  /\ ansiArg \in Channels \X Channels \X Channels
  /\ ansiRet = <<>>

SpecAnsi == InitColour /\ [][CallRgbToAnsi]_vars

\* ---- process_video: playback of one video through the buffer ---------------
bufFlags == <<is_extracting, extraction_complete, preload_complete, skipped_frames,
              stream_process, is_rendering, render_complete>>


\* target_frame = int(elapsed_since_start * args.fps)
TargetFrame(t, st) == (t - st) * Fps

\* target_frame_time = start_time + (frame_count / args.fps), the instant up
\* to which the loop sleeps after a frame (drift_correction stays 0 before
\* the first sync_interval frames).
FrameTime(st, fc) == st + (fc \div Fps)

\* The clock on resume: start_time = time.time() - (frame_count / args.fps).
Reanchor(t, fc) == t - (fc \div Fps)

\* A time.sleep that ends at instant w is over; instants past the last one
\* of the clock are represented by the last one.
Elapsed(w) == now >= Min(w, MaxTime)

\* frame_skip_count += 1, kept within the range of the counter.
CountSkip(n) == Min(n + 1, MaxSkipped)

\* The keys a poll or the input-handler thread can read: none when the user
\* has pressed no further key.
KeysAt(k) == IF k < MaxKeys THEN {"none", "q", "p"} ELSE {"none"}

\* The catch-up loop of the raw path takes frames_to_skip - 1 turns, with no
\* cap.
EnterRawUncapped(fts) ==
  IF fts > 1
  THEN pcMain' = "skip" /\ callLeft' = fts - 1
  ELSE pcMain' = "get" /\ callLeft' = 0

\* The raw-frame path of a tick: up to min(frames_to_skip - 1, 5) skips when
\* more than one frame behind, then the blocking get.
EnterRaw(fts) ==
  IF fts > 1
  THEN pcMain' = "skip" /\ callLeft' = Min(fts - 1, RawSkipCap)
  ELSE pcMain' = "get" /\ callLeft' = 0

\* The rest of a tick once the frame is fetched, fb being the frame_buffer and
\* fc the frame_count it ends with: without a frame_buffer the loop starts
\* over; with one the frame is drawn, the key is polled every check_interval
\* frames ('q' returns, 'p' toggles paused without touching the clock) and the
\* loop sleeps up to the time of the next frame.
AfterFetch(fb, fc) ==
  /\ frame_buffer' = fb
  /\ frame_count' = fc
  /\ frames_to_skip' = 0
  /\ callLeft' = 0
  /\ rendered_frame_data' = NoFrame
  /\ tick_removed' = 0
  /\ IF fb = NoFrame
     THEN /\ pcMain' = "top"
          /\ UNCHANGED <<paused, wake, keys, quit_requested, resumed>>
     ELSE /\ wake' = FrameTime(start_time, fc)
          /\ IF fc % CheckInterval = 0
             THEN \E key \in KeysAt(keys) :
                    /\ keys' = IF key = "none" THEN keys ELSE keys + 1
                    /\ quit_requested' = (quit_requested \/ key = "q")
                    /\ paused' = IF key = "p" THEN ~paused ELSE paused
                    /\ resumed' = (resumed \/ (key = "p" /\ paused))
                    /\ pcMain' = IF key = "q" THEN "done"
                                 ELSE IF wake' > now THEN "sleep" ELSE "top"
             ELSE /\ pcMain' = IF wake' > now THEN "sleep" ELSE "top"
                  /\ UNCHANGED <<paused, keys, quit_requested, resumed>>

\* The video branch up to start_extraction; on failure process_video falls
\* back to VideoManager.extract_frames and returns.
PlayStart ==
  /\ pcMain = "start"
  /\ \E ok \in BOOLEAN :
       IF ok /\ ~is_extracting
       THEN StartExtraction(TRUE)
       ELSE /\ StartExtraction(FALSE)
            /\ pcMain' = "done"
  /\ UNCHANGED <<callLeft, preVars, histVars, playVars, playHist,
                 cvrVars, apiHist, toolVars>>

PlayPreload ==
  /\ (PreloadPoll \/ PreloadPartial \/ PreloadEnd("begin"))
  /\ UNCHANGED <<preVars, histVars, playVars, playHist,
                 cvrVars, probeFailed, toolVars>>

\* After start_extraction: return when it failed, else start the smart
\* pre-render worker when smart_sync is set and enter the loop.
PlayBegin ==
  /\ pcMain = "begin"
  /\ IF callRet = 0
     THEN /\ pcMain' = "done"
          /\ UNCHANGED <<is_rendering, render_complete, pcPre>>
     ELSE /\ pcMain' = "top"
          /\ IF smart_sync /\ pcPre \in {"off", "done"}
             THEN is_rendering' = TRUE /\ render_complete' = FALSE /\ pcPre' = "loop"
             ELSE UNCHANGED <<is_rendering, render_complete, pcPre>>
  /\ UNCHANGED <<buffer, rendered_buffer, is_extracting, extraction_complete,
                 preload_complete, skipped_frames, stream_process, preFrame,
                 preRenders, prodVars, callLeft, callRet, histVars, playVars,
                 playHist,
                 cvrVars, apiHist, toolVars>>

\* Start of a tick (not paused): the target frame from the clock, and the
\* choice between the pre-rendered and the raw path.
MainTick ==
  /\ pcMain = "top"
  /\ ~paused
  /\ frames_to_skip' = TargetFrame(now, start_time) - frame_count
  /\ IF smart_sync /\ frames_to_skip' > 1
     THEN pcMain' = "rget" /\ callLeft' = 0
     ELSE EnterRaw(frames_to_skip')
  /\ resumed' = FALSE
  /\ tick_removed' = 0
  /\ UNCHANGED <<buffer, rendered_buffer, bufFlags, prodVars, preVars, callRet,
                 histVars, smart_sync, paused, frame_count, frame_skip_count,
                 start_time, rendered_frame_data, frame_buffer, now, wake, pcInput,
                 keys, quit_requested,
                 cvrVars, apiHist, toolRest>>

\* rendered = get_rendered_frame(block=False).  Without a pre-rendered frame
\* the tick takes the raw path; with one and more than two frames behind it
\* calls skip_rendered_frames(min(frames_to_skip - 1, 3)); else the
\* pre-rendered frame becomes the frame_buffer.
MainGetRendered ==
  /\ pcMain = "rget"
  /\ IF Empty(rendered_buffer)
     THEN /\ GetTimesOut
          /\ EnterRaw(frames_to_skip)
          /\ UNCHANGED <<rendered_buffer, rendered_frame_data, frame_buffer,
                         frame_count, frames_to_skip, paused, wake, playHist,
                         tick_removed>>
     ELSE /\ rendered_buffer' = QRest(rendered_buffer)
          /\ IF frames_to_skip > 2
             THEN /\ rendered_frame_data' = Head(rendered_buffer)
                  /\ pcMain' = "rskip"
                  /\ callLeft' = Min(frames_to_skip - 1, RenderedSkipCap)
                  /\ UNCHANGED <<frame_buffer, frame_count, frames_to_skip, paused,
                                 wake, playHist, tick_removed>>
             ELSE AfterFetch(Head(rendered_buffer), frame_count + 1)
  /\ UNCHANGED <<buffer, bufFlags, prodVars, preVars, callRet, histVars, smart_sync,
                 frame_skip_count, start_time, now, pcInput,
                 cvrVars, apiHist, toolRest>>

\* skip_rendered_frames: one turn of its loop, each frame skipped counting in
\* frame_skip_count; after the last turn, or on queue.Empty, the pre-rendered
\* frame in hand becomes the frame_buffer.
MainSkipRendered ==
  /\ pcMain = "rskip"
  /\ IF ~Empty(rendered_buffer)
     THEN /\ rendered_buffer' = QRest(rendered_buffer)
          /\ frame_skip_count' = CountSkip(frame_skip_count)
          /\ IF callLeft > 1
             THEN /\ callLeft' = callLeft - 1
                  /\ tick_removed' = tick_removed + 1
                  /\ UNCHANGED <<pcMain, rendered_frame_data, frame_buffer, frame_count,
                                 frames_to_skip, paused, wake, playHist>>
             ELSE AfterFetch(rendered_frame_data, frame_count + 1)
     ELSE /\ AfterFetch(rendered_frame_data, frame_count + 1)
          /\ UNCHANGED <<rendered_buffer, frame_skip_count>>
  /\ UNCHANGED <<buffer, bufFlags, prodVars, preVars, callRet, histVars, smart_sync,
                 start_time, now, pcInput,
                 cvrVars, apiHist, toolRest>>

\* One turn of the catch-up loop: "_ = get_frame(block=False, timeout=0.01)"
\* then "frame_skip_count += 1"; get_frame returns None on an empty buffer
\* and raises nothing, so the turn counts a skip either way.
MainSkipRaw ==
  /\ pcMain = "skip"
  /\ IF Empty(buffer)
     THEN GetTimesOut /\ UNCHANGED <<buffer, tick_removed>>
     ELSE buffer' = QRest(buffer) /\ tick_removed' = tick_removed + 1
  /\ frame_skip_count' = CountSkip(frame_skip_count)
  /\ callLeft' = callLeft - 1
  /\ pcMain' = IF callLeft = 1 THEN "get" ELSE "skip"
  /\ UNCHANGED <<rendered_buffer, bufFlags, prodVars, preVars, callRet, histVars,
                 smart_sync, paused, frame_count, start_time, frames_to_skip,
                 rendered_frame_data, frame_buffer, now, wake, pcInput, playHist,
                 cvrVars, apiHist, toolRest>>

\* frame = get_frame(block=True, timeout=0.1) returns a frame, which is
\* processed into frame_buffer; frame_count += 1.
MainGetOk ==
  /\ pcMain = "get"
  /\ ~Empty(buffer)
  /\ buffer' = QRest(buffer)
  /\ AfterFetch(Head(buffer), frame_count + 1)
  /\ UNCHANGED <<rendered_buffer, bufFlags, prodVars, preVars, callRet, histVars,
                 smart_sync, frame_skip_count, start_time, now, pcInput,
                 cvrVars, apiHist, toolRest>>

\* The get times out: get_frame returns None, no exception reaches the loop,
\* and the tick goes on with the frame_buffer of the tick before.
MainGetEmpty ==
  /\ pcMain = "get"
  /\ Empty(buffer)
  /\ GetTimesOut
  /\ AfterFetch(frame_buffer, frame_count)
  /\ UNCHANGED <<buffer, rendered_buffer, bufFlags, prodVars, preVars, callRet,
                 histVars, smart_sync, frame_skip_count, start_time, now, pcInput,
                 cvrVars, apiHist, toolRest>>

\* The pause branch: the status is redrawn, the key is polled ('q' returns,
\* 'p' resumes and re-anchors the clock), then time.sleep(0.1).
MainPaused ==
  /\ pcMain = "top"
  /\ paused
  /\ \E key \in KeysAt(keys) :
       /\ keys' = IF key = "none" THEN keys ELSE keys + 1
       /\ pcMain' = IF key = "q" THEN "done" ELSE "sleep"
       /\ quit_requested' = (quit_requested \/ key = "q")
       /\ IF key = "p"
          THEN /\ paused' = FALSE
               /\ start_time' = Reanchor(now, frame_count)
               /\ resumed' = TRUE
          ELSE UNCHANGED <<paused, start_time, resumed>>
  /\ wake' = now + PauseSleep
  /\ UNCHANGED <<buffer, rendered_buffer, bufFlags, prodVars, preVars, callLeft,
                 callRet, histVars, smart_sync, frame_count, frame_skip_count,
                 frames_to_skip, rendered_frame_data, frame_buffer, now, pcInput,
                 cvrVars, apiHist, toolVars>>

\* The time.sleep of the loop (after a frame, or in the pause branch) ends.
MainWake ==
  /\ pcMain = "sleep"
  /\ Elapsed(wake)
  /\ pcMain' = "top"
  /\ UNCHANGED <<buffer, rendered_buffer, bufFlags, prodVars, preVars, callLeft,
                 callRet, histVars, playVars, playHist,
                 cvrVars, apiHist, toolVars>>

\* The loop on the direct path, and the steps smart_sync adds to it.
MainLoop ==
  \/ MainTick
  \/ MainSkipRaw
  \/ MainGetOk
  \/ MainGetEmpty
  \/ MainPaused
  \/ MainWake

MainLoopSmart ==
  \/ MainGetRendered
  \/ MainSkipRendered

\* quit_callback, run by the input-handler thread on 'q' or Enter: it sets
\* paused and calls sys.exit(0), which ends the input-handler thread only.
QuitCallback ==
  /\ pcInput = "run"
  /\ keys < MaxKeys
  /\ keys' = keys + 1
  /\ paused' = TRUE
  /\ quit_requested' = TRUE
  /\ pcInput' = "dead"
  /\ UNCHANGED <<bufVars, prodVars, preVars, callVars, histVars, smart_sync,
                 frame_count, frame_skip_count, start_time, frames_to_skip,
                 rendered_frame_data, frame_buffer, now, wake, resumed,
                 cvrVars, apiHist, toolVars>>

\* pause_callback, run by the input-handler thread on 'p' or space: paused is
\* toggled and the clock is re-anchored on resume.
PauseCallback ==
  /\ pcInput = "run"
  /\ keys < MaxKeys
  /\ keys' = keys + 1
  /\ paused' = ~paused
  /\ IF paused
     THEN /\ start_time' = Reanchor(now, frame_count)
          /\ resumed' = TRUE
     ELSE UNCHANGED <<start_time, resumed>>
  /\ UNCHANGED <<bufVars, prodVars, preVars, callVars, histVars, smart_sync,
                 frame_count, frame_skip_count, frames_to_skip, rendered_frame_data,
                 frame_buffer, now, wake, pcInput, quit_requested,
                 cvrVars, apiHist, toolVars>>

\* The wall clock advances.
Tick ==
  /\ now < MaxTime
  /\ now' = now + 1
  /\ UNCHANGED <<bufVars, prodVars, preVars, callVars, histVars, smart_sync, paused,
                 frame_count, frame_skip_count, start_time, frames_to_skip,
                 rendered_frame_data, frame_buffer, wake, pcInput, playHist,
                 cvrVars, apiHist, toolVars>>

\* process_video on high-capability hardware (smart_sync off), the input
\* handler being started before the extraction.
InitPlay ==
  /\ InitBuffer
  /\ InitPlayback
  /\ InitRenderer
  /\ InitTools
  /\ videoLen = PlayFrames
  /\ smart_sync = FALSE
  /\ pcInput = "run"
  /\ pcMain = "start"
  /\ callLeft = 0
  /\ callRet = 0

\* The main thread of a playback, on the direct path and with smart_sync.
PlayMain ==
  \/ PlayStart
  \/ PlayPreload
  \/ PlayBegin
  \/ MainLoop

PlayMainSmart ==
  \/ PlayMain
  \/ MainLoopSmart

NextPlay ==
  \/ Producer
  \/ PlayMain
  \/ QuitCallback
  \/ PauseCallback
  \/ Tick

SpecPlay == InitPlay /\ [][NextPlay]_vars

\* Every thread that can take a step is scheduled in the end, and time
\* passes.
FairPlay ==
  /\ SpecPlay
  /\ WF_vars(Producer)
  /\ WF_vars(PlayMain)
  /\ WF_vars(Tick)

\* process_video with smart_sync on (hardware capability below "high") and
\* no input handler (the import of input_handler failed): the keys are read
\* by the polls of the loop only.
InitSmart ==
  /\ InitBuffer
  /\ InitPlayback
  /\ InitRenderer
  /\ InitTools
  /\ videoLen = PlayFrames
  /\ smart_sync = TRUE
  /\ pcInput = "off"
  /\ pcMain = "start"
  /\ callLeft = 0
  /\ callRet = 0

NextSmart ==
  \/ Producer
  \/ PreRender
  \/ PlayMainSmart
  \/ Tick

SpecSmart == InitSmart /\ [][NextSmart]_vars

FairSmart ==
  /\ SpecSmart
  /\ WF_vars(Producer)
  /\ WF_vars(PreRender)
  /\ WF_vars(PlayMainSmart)
  /\ WF_vars(Tick)

\* ---- process_video: playback from the pre-rendered frames --------------------
\* The bounds test lets the index total_frames through.
ReachedEndLate(target, total) == target > total

\* "if target_frame >= total_frames:"
ReachedEnd(target, total) == target >= total

\* kbhit() and getch(): no key, or the key read.
ReplayKeys == {"none", "q", "p"}

\* One turn of "while frame_count < total_frames:".  Paused, the current
\* frame is shown again and a key is polled (q returns, p resumes and
\* re-anchors the clock).  Else the target index is computed from the clock;
\* at the end of the video the clock is reset (args.loop) or the loop is left;
\* else the target frame is asked of the renderer and, when it is there,
\* shown, with a key poll on every fifth frame; a missing frame only advances
\* frame_count.
ReplayTurn ==
  /\ pcReplay = "loop"
  /\ IF hq_frame_count >= hq_total_frames
     THEN /\ pcReplay' = "done"
          /\ UNCHANGED <<hq_frame_count, hq_start_time, hq_paused, requested>>
     ELSE IF hq_paused
     THEN /\ requested' = hq_frame_count
          /\ \E key \in ReplayKeys :
               /\ pcReplay' = IF key = "q" THEN "done" ELSE "loop"
               /\ hq_paused' = (key # "p")
               /\ hq_start_time' = IF key = "p" THEN Reanchor(hq_now, hq_frame_count)
                                   ELSE hq_start_time
          /\ UNCHANGED hq_frame_count
     ELSE LET target_frame == TargetFrame(hq_now, hq_start_time)
          IN  IF ReachedEnd(target_frame, hq_total_frames)
              THEN /\ IF loop
                      THEN /\ hq_start_time' = hq_now
                           /\ hq_frame_count' = 0
                           /\ pcReplay' = "continue"
                      ELSE /\ pcReplay' = "done"
                           /\ UNCHANGED <<hq_start_time, hq_frame_count>>
                   /\ UNCHANGED <<hq_paused, requested>>
              ELSE /\ requested' = target_frame
                   /\ IF Retrievable(target_frame)
                      THEN /\ hq_frame_count' = target_frame
                           /\ \E key \in ReplayKeys :
                                IF target_frame % 5 = 0
                                THEN /\ pcReplay' = IF key = "q" THEN "done" ELSE "loop"
                                     /\ hq_paused' = (key = "p")
                                ELSE UNCHANGED <<pcReplay, hq_paused>>
                      ELSE /\ hq_frame_count' = hq_frame_count + 1
                           /\ UNCHANGED <<pcReplay, hq_paused>>
                   /\ UNCHANGED hq_start_time
  /\ UNCHANGED <<bufVars, prodVars, preVars, callVars, histVars, playVars, playHist,
                 apiHist, cvrVars, memVars, monVars, perfVars, drift_correction, ansiVars,
                 extraVars,
                 loop, hq_total_frames, hq_now, tick_removed>>

\* The "continue" after the clock was reset: back to the test of the loop.
ReplayContinue ==
  /\ pcReplay = "continue"
  /\ pcReplay' = "loop"
  /\ UNCHANGED <<bufVars, prodVars, preVars, callVars, histVars, playVars, playHist,
                 apiHist, cvrVars, memVars, monVars, perfVars, drift_correction, ansiVars,
                 extraVars,
                 loop, hq_total_frames, hq_frame_count, hq_start_time, hq_paused,
                 hq_now, requested, tick_removed>>

\* The wall clock advances while the playback runs (time.sleep, rendering).
ReplayTick ==
  /\ pcReplay \in {"loop", "continue"}
  /\ hq_now < MaxReplayTime
  /\ hq_now' = hq_now + 1
  /\ UNCHANGED <<bufVars, prodVars, preVars, callVars, histVars, playVars, playHist,
                 apiHist, cvrVars, memVars, monVars, perfVars, drift_correction, ansiVars,
                 extraVars,
                 pcReplay, loop, hq_total_frames, hq_frame_count, hq_start_time,
                 hq_paused, requested, tick_removed>>

\* The CompleteVideoRenderer after a pre-render of n frames that went through
\* all of them, with the grid files that were written.
InitRendered ==
  \E n \in 1..CvrFrames :
    /\ cvr_is_rendering = FALSE
    /\ is_cancelled = FALSE
    /\ progress = 100
    /\ processed_frames = n
    /\ total_frames = n
    /\ cvrRuns = 1
    /\ render_thread = 1
    /\ pcRender = [r \in Runs |-> IF r = 1 THEN "done" ELSE "idle"]
    /\ frameIdx = [r \in Runs |-> IF r = 1 THEN n ELSE 0]
    /\ runFrames = [r \in Runs |-> IF r = 1 THEN n ELSE 0]
    /\ pcCancel = "idle"
    /\ cancelledMidRun = FALSE
    /\ cancelledInLoop = {}
    /\ persisted \in SUBSET (0..(n - 1))
    /\ use_high_quality = [r \in Runs |-> FALSE]
    /\ processed_img = [r \in Runs |-> NoFrame]
    /\ extractPos = [r \in Runs |-> -1]
    /\ erroredRuns = {}
    /\ downgraded = {}

\* The playback is entered after the pre-render: frame_count = 0,
\* start_time = time.time(), total_frames = int(args.duration * args.fps) or
\* complete_renderer.total_frames.
InitReplay ==
  /\ InitBuffer
  /\ InitPlayback
  /\ InitRendered
  /\ InitMonitor
  /\ InitExtra
  /\ InitAnalyzer
  /\ InitSync
  /\ InitAnsi
  /\ videoLen = NumFrames
  /\ pcInput = "off"
  /\ pcMain = "idle"
  /\ callLeft = 0
  /\ callRet = 0
  /\ smart_sync = FALSE
  /\ pcReplay = "loop"
  /\ loop \in BOOLEAN
  /\ hq_total_frames \in {total_frames} \cup 0..ReplayFrames
  /\ hq_frame_count = 0
  /\ hq_start_time = 0
  /\ hq_paused = FALSE
  /\ hq_now = 0
  /\ requested = NoFrame

NextReplay ==
  \/ ReplayTurn
  \/ ReplayContinue
  \/ ReplayTick

SpecReplay == InitReplay /\ [][NextReplay]_vars

\* ---- the playback loop entered late --------------------------------------------
\* The loop of process_video is entered behind its clock (start_time was
\* taken up to MaxBehind instants before), the production and pre-render
\* workers have finished, j pre-rendered frames and k raw frames wait in the
\* buffers.
InitLate ==
  \E j, k \in 0..TickBuf, behind \in 0..MaxBehind :
    /\ smart_sync \in BOOLEAN
    /\ (~smart_sync => j = 0)
    /\ rendered_buffer = [i \in 1..j |-> i - 1]
    /\ buffer = [i \in 1..k |-> j + i - 1]
    /\ videoLen = j + k
    /\ is_extracting = FALSE
    /\ extraction_complete = TRUE
    /\ preload_complete = TRUE
    /\ skipped_frames = 0
    /\ stream_process = 0
    /\ is_rendering = FALSE
    /\ render_complete = smart_sync
    /\ pcProd = [w \in Workers |-> IF w = 1 THEN "done" ELSE "idle"]
    /\ srcPos = [w \in Workers |-> IF w = 1 THEN j + k ELSE 0]
    /\ procAlive = [w \in Workers |-> FALSE]
    /\ started = 1
    /\ pcPre = IF smart_sync THEN "done" ELSE "off"
    /\ preFrame = NoFrame
    /\ preRenders = j
    /\ dropped = 0
    /\ streamFailed = FALSE
    /\ fallbackAttempted = FALSE
    /\ probeFailed = {}
    /\ callEntry = NoEntry
    /\ paused = FALSE
    /\ frame_count = 0
    /\ frame_skip_count = 0
    /\ start_time = -behind
    /\ frames_to_skip = 0
    /\ rendered_frame_data = NoFrame
    /\ frame_buffer = NoFrame
    /\ now = 0
    /\ wake = 0
    /\ keys = 0
    /\ quit_requested = FALSE
    /\ resumed = FALSE
    /\ tick_removed = 0
    /\ pcInput = "off"
    /\ pcMain = "top"
    /\ callLeft = 0
    /\ callRet = 1
    /\ InitRenderer
    /\ InitMonitor
    /\ InitExtra
    /\ InitAnalyzer
    /\ InitSync
    /\ InitAnsi
    /\ InitNoReplay

NextLate ==
  \/ MainLoop
  \/ MainLoopSmart
  \/ Tick

SpecLate == InitLate /\ [][NextLate]_vars

\* ---- properties of the playback (SpecPlay, FairPlay, SpecSmart, FairSmart) --
\* C2: frames reach the renderer in strictly increasing sequence-index order:
\* every frame that becomes the frame_buffer has a higher index than the one
\* rendered before it.
C2_IncreasingOrder ==
  [][frame_count' > frame_count => frame_buffer' > frame_buffer]_vars

\* C3: once the extraction is complete and the buffer is empty, the loop of
\* the direct path ends on its own, with no key pressed.
C3_NaturalEnd ==
  (extraction_complete /\ Empty(buffer) /\ pcMain \in {"top", "get", "skip", "sleep"})
    ~> (pcMain = "done" \/ keys > 0)

\* C6: a quit, read by a key poll of the loop or by the input-handler thread,
\* ends the loop.
C6_QuitStops == quit_requested ~> (pcMain = "done")

\* C7: the first tick after a resume finds the playback on target: it computes
\* target_frame = frame_count, that is frames_to_skip = 0.
C7_FirstTickOnTarget ==
  [][(pcMain = "top" /\ resumed /\ ~resumed') => frames_to_skip' = 0]_vars

C4_CancelledNotComplete == cancelledMidRun => ~IsComplete

\* ---- properties of the buffer (Spec) ----------------------------------------
\* C1: under every interleaving of the production worker's put, the caller's
\* get_frame / skip_frames / stop and the pre-render worker's get and re-put,
\* buffer and rendered_buffer each hold between 0 and max_buffer_size frames.
C1_Occupancy ==
  /\ Len(buffer) \in 0..MaxBuf
  /\ Len(rendered_buffer) \in 0..MaxBuf

\* Both buffers are full: a production worker has been refused, and the
\* pre-render worker has taken, rendered and put back max_buffer_size frames.
C1_Witness ==
  /\ Len(buffer) = MaxBuf
  /\ Len(rendered_buffer) = MaxBuf
  /\ pcPre = "loop"
  /\ preRenders = MaxBuf
  /\ dropped > 0

\* C5: when the streaming strategy has failed, the file-sequence strategy is
\* attempted before the extraction is reported complete.
C5_FallbackBeforeComplete ==
  (streamFailed /\ extraction_complete) => fallbackAttempted

\* C8: a put of the production worker that fails on a full buffer leaves the
\* buffered frames unchanged in content and order.
C8_FullPutKeepsBuffer ==
  [][\A w \in Workers :
       (pcProd[w] = "put" /\ pcProd'[w] = "read" /\ dropped' = dropped + 1)
         => buffer' = buffer]_vars

\* A put has failed on the full buffer, which still holds max_buffer_size
\* frames in source order.
C8_Witness ==
  /\ dropped > 0
  /\ Len(buffer) = MaxBuf
  /\ \E w \in Workers : pcProd[w] = "read" /\ srcPos[w] = videoLen
  /\ \A i \in 1..(Len(buffer) - 1) : buffer[i] < buffer[i + 1]

\* C9: every frame a production worker drops on a full buffer is counted, so
\* skipped_frames is at least the number of frames dropped.
C9_DropsCounted == skipped_frames >= dropped

\* ---- skip_frames -------------------------------------------------------------
\* C11: a skip_frames(n) call that no other thread disturbs returns
\* min(n, size), has removed that many frames from the head of the buffer
\* (the rest stays in its order) and has added the same number to
\* skipped_frames; every turn of the call is a step nothing can block.
C11_SkipExact ==
  [][(pcMain = "skip_frames" /\ pcMain' = "idle" /\ callEntry.quiet) =>
       LET size == Len(callEntry.buf)
           k == Min(callEntry.n, size)
       IN /\ callRet' = k
          /\ skipped_frames' = callEntry.skipped + k
          /\ buffer' = SubSeq(callEntry.buf, k + 1, size)]_vars

\* An undisturbed skip_frames(n) with n above the size of a non-empty buffer
\* has emptied the buffer and is about to meet queue.Empty.
C11_Witness ==
  /\ pcMain = "skip_frames"
  /\ callEntry.quiet
  /\ Len(callEntry.buf) >= 1
  /\ callEntry.n > Len(callEntry.buf)
  /\ callRet = Len(callEntry.buf)
  /\ callLeft > 0
  /\ Empty(buffer)

\* ---- start_extraction: the preload gate -----------------------------------------
\* C12: during the preload wait preload_complete is set only at a poll that
\* finds at least preload_frames frames in the buffer, and a poll of a running
\* extraction that finds that many frames always sets it.
C12_FullPreloadGate ==
  [][pcMain = "preload" =>
       /\ ~preload_complete
       /\ preload_complete' => Len(buffer) >= PreloadFrames
       /\ (pcMain' # "preload" /\ is_extracting /\ Len(buffer) >= PreloadFrames)
            => preload_complete']_vars

\* The wait has just ended on a full preload.
C12_Witness ==
  /\ pcMain = "preload_end"
  /\ preload_complete
  /\ Len(callEntry.buf) = PreloadFrames

\* C13 (as stated): whatever the other threads do, a start_extraction whose
\* wait ends with k frames buffered returns true with preload_complete set and
\* those k frames in the buffer when 1 <= k < preload_frames, and returns
\* false with preload_complete unset when k = 0.
C13_PartialPreloadAlways ==
  [][(pcMain = "preload_ret" /\ pcMain' # "preload_ret") =>
       LET k == Len(callEntry.buf)
       IN /\ (1 <= k /\ k < PreloadFrames) =>
               (preload_complete' /\ callRet' = 1 /\ buffer' = callEntry.buf)
          /\ k = 0 => (~preload_complete' /\ callRet' = 0)]_vars

\* C13 (amended): the same, for a start_extraction during whose last
\* statements no other thread touches the buffer (the production worker has
\* finished early and no pre-render worker runs).
C13_PartialPreload ==
  [][(pcMain = "preload_ret" /\ pcMain' # "preload_ret" /\ callEntry.quiet) =>
       LET k == Len(callEntry.buf)
       IN /\ (1 <= k /\ k < PreloadFrames) =>
               (preload_complete' /\ callRet' = 1 /\ buffer' = callEntry.buf)
          /\ k = 0 => (~preload_complete' /\ callRet' = 0)]_vars

\* An undisturbed start_extraction is about to return from a partial preload.
C13_Witness ==
  /\ pcMain = "preload_ret"
  /\ callEntry.quiet
  /\ Len(callEntry.buf) >= 1
  /\ Len(callEntry.buf) < PreloadFrames
  /\ preload_complete
  /\ buffer = callEntry.buf

\* ---- start_extraction: refused starts ----------------------------------------
\* C15: a start_extraction is accepted only while no extraction is running,
\* and a refused one (extraction running, file missing or decode tool not
\* runnable) returns false, starts no worker and leaves the flags, the
\* counters and both buffers as they were.
C15_RefusedStartChangesNothing ==
  [][pcMain = "idle" =>
       /\ pcMain' = "preload" => ~is_extracting
       /\ pcMain' = "refused" =>
            /\ callRet' = 0
            /\ started' = started
            /\ pcProd' = pcProd
            /\ buffer' = buffer
            /\ rendered_buffer' = rendered_buffer
            /\ is_extracting' = is_extracting
            /\ extraction_complete' = extraction_complete
            /\ preload_complete' = preload_complete
            /\ skipped_frames' = skipped_frames]_vars

\* A start_extraction was refused while an extraction is running with frames
\* in the buffer and the preload completed.
C15_Witness ==
  /\ pcMain = "refused"
  /\ is_extracting
  /\ preload_complete
  /\ ~Empty(buffer)

\* ---- extraction without metadata --------------------------------------------
\* C14: a production worker whose metadata probe gave no dimensions (and whose
\* caller supplied none) does not finish without having read a frame from
\* the decoder.
C14_ProbeFailureStillDelivers ==
  \A w \in probeFailed : pcProd[w] \in {"returned", "done"} => srcPos[w] > 0

\* ---- MemoryMonitor.is_memory_safe ---------------------------------------------
\* C16: is_memory_safe(additional) returns true exactly when the usage it
\* measures plus the additional amount is strictly below the critical
\* threshold: with 800 MB critical and no additional amount, false at 850 MB
\* and at 800 MB exactly, true at 500 MB.
C16_StrictThreshold ==
  memRet # <<>> =>
    /\ memRet[1] = (current_usage + memArg * MB < CriticalThresholdMb * MB)
    /\ (memArg = 0 /\ current_usage = 850 * MB) => ~memRet[1]
    /\ (memArg = 0 /\ current_usage = 800 * MB) => ~memRet[1]
    /\ (memArg = 0 /\ current_usage = 500 * MB) => memRet[1]

\* is_memory_safe() was called at exactly the critical threshold.
C16_Witness ==
  /\ memRet = <<FALSE>>
  /\ memArg = 0
  /\ current_usage = CriticalThresholdMb * MB

\* ---- PerformanceAnalyzer.get_adaptive_parameters ------------------------------
\* C17: the parameters returned are those of the table on achieved / target:
\* above 0.85 the target with smoothness 1.0 and skip ratio 0.0; above 0.6 up
\* to 0.85 nine tenths of the target with 0.9 and 0.1; up to 0.6 the larger of
\* 12 and 1.1 times the achieved rate with 0.8 and 0.2.
C17_FollowsTable ==
  perfRet # <<>> =>
    perfRet[1] =
      IF 100 * current_fps > 85 * target_fps
      THEN [fps |-> 10 * target_fps, smoothness |-> 10, skip_ratio |-> 0]
      ELSE IF 100 * current_fps > 60 * target_fps
      THEN [fps |-> 9 * target_fps, smoothness |-> 9, skip_ratio |-> 1]
      ELSE [fps |-> Max(120, 11 * current_fps), smoothness |-> 8, skip_ratio |-> 2]

\* C18: with 20 fps achieved and a target of 24 fps the parameters are
\* smoothness 0.9 and fps 21.6, whatever the capability tier.
C18_TwentyOfTwentyFour ==
  (perfRet # <<>> /\ current_fps = 20 /\ target_fps = 24) =>
    (perfRet[1].smoothness = 9 /\ perfRet[1].fps = 216)

\* ---- drift correction -----------------------------------------------------------
\* C19: one adjustment at a sync point changes drift_correction by at most
\* max_correction, whatever the drift, the accumulated correction and the
\* branch taken.
C19_BoundedAdjustment ==
  [][Abs(drift_correction' - drift_correction) <= MaxCorrection]_vars

\* ---- cancel_rendering -------------------------------------------------------------
\* C20: a render worker whose per-frame loop was interrupted by
\* cancel_rendering starts no further frame.
C20_NoNewFrameAfterCancel ==
  [][\A r \in cancelledInLoop :
       ~(pcRender[r] = "loop" /\ pcRender'[r] = "frame")]_vars

\* C21: whenever is_complete() is true every frame of the run has been
\* processed, processed_frames = total_frames.  A run cancelled in its
\* per-frame loop leaves the loop by the break and still reports progress 100,
\* so is_complete() becomes true with frames missing.
C21_CompleteMeansAll == IsComplete => processed_frames = total_frames


\* The run of thread r is the current one and an exception raised by one of
\* its frames has ended it.
EndedByError(r) ==
  /\ r \in erroredRuns
  /\ r = render_thread
  /\ pcRender[r] = "done"

\* C22: when the processing of a frame raises an error in a run, the worker
\* ends, is_rendering is false, processed_frames is the number of frames
\* finished before the error, the progress is below 100 and is_complete() is
\* false.
C22_ErrorEndsRun ==
  \A r \in Runs :
    EndedByError(r) =>
      /\ ~cvr_is_rendering
      /\ processed_frames = frameIdx[r]
      /\ progress < 100
      /\ ~IsComplete


\* C23: once the memory guard has found the memory unsafe before a frame of
\* a run, high quality is off for that frame and every later one (it is
\* never turned on again inside the loop); the guard itself never ends the
\* run, and each later frame that raises nothing is processed by the standard
\* path and counted.
C23_DowngradeKeepsRunning ==
  /\ [](\A r \in downgraded : ~use_high_quality[r])
  /\ [][\A r \in Runs :
          /\ (InLoop(r) /\ InLoop(r)') => (use_high_quality'[r] => use_high_quality[r])
          /\ (pcRender[r] = "frame" /\ pcRender'[r] # "frame")
               => pcRender'[r] \in {"process", "loop"}
          /\ (r \in downgraded /\ pcRender[r] = "process" /\ pcRender'[r] = "loop")
               => /\ processed_img'[r] = frameIdx[r]
                  /\ frameIdx'[r] = frameIdx[r] + 1
                  /\ processed_frames' = processed_frames + 1]_vars

\* A run downgraded by the memory guard has gone through all its frames and
\* every grid is persisted.
C23_Witness ==
  \E r \in downgraded :
    /\ pcRender[r] = "finish"
    /\ runFrames[r] = CvrFrames
    /\ frameIdx[r] = CvrFrames
    /\ persisted = 0..(CvrFrames - 1)


\* C24: within a run (no start_rendering in between) the progress written by
\* _update_progress never decreases from one report to the next.
C24_ProgressNeverDecreases ==
  [][cvrRuns' = cvrRuns => progress' >= progress]_vars


\* C25: for a colour that is not a gray, rgb_to_ansi returns
\* 16 + r_level * 36 + g_level * 6 + b_level where each level is the channel
\* rounded to the nearest of the 6 cube levels, round(channel / 255 * 5).  The
\* code truncates instead of rounding.
C25_RoundedLevels ==
  LET level(c) == (10 * c + 255) \div 510
      r == ansiArg[1]
      g == ansiArg[2]
      b == ansiArg[3]
  IN  (ansiRet # <<>> /\ ~(r = g /\ g = b))
        => ansiRet[1] = 16 + level(r) * 36 + level(g) * 6 + level(b)


\* C26: in the playback from pre-rendered frames, a turn that finds the
\* target index at or past total_frames resets the clock (start_time = now,
\* frame_count = 0) and goes on when looping is enabled, and ends the playback
\* when it is not; and no index outside 0..total_frames-1 is ever asked of
\* the renderer.
C26_LoopOrEnd ==
  /\ [](requested # NoFrame => requested \in 0..(hq_total_frames - 1))
  /\ [][(/\ pcReplay = "loop"
         /\ pcReplay' # pcReplay \/ hq_frame_count' # hq_frame_count
              \/ requested' # requested \/ hq_paused' # hq_paused
         /\ hq_frame_count < hq_total_frames
         /\ ~hq_paused
         /\ (hq_now - hq_start_time) * Fps >= hq_total_frames)
          => IF loop
             THEN /\ hq_start_time' = hq_now
                  /\ hq_frame_count' = 0
                  /\ pcReplay' = "continue"
             ELSE pcReplay' = "done"]_vars

\* A looping playback has shown a frame, reached the end of the video and
\* reset its clock.
C26_Witness ==
  /\ loop
  /\ pcReplay = "continue"
  /\ requested # NoFrame
  /\ hq_start_time = hq_now
  /\ hq_now > 0


\* C27: frame_skip_count counts the frames the catch-up skipping removed from
\* the buffers: whenever it grows, a frame has left the raw or the
\* pre-rendered buffer in the same turn; a skip attempt on an empty buffer
\* leaves it as it is.
C27_SkipCountsRemovals ==
  [][frame_skip_count' > frame_skip_count
       => \/ Len(buffer') < Len(buffer)
          \/ Len(rendered_buffer') < Len(rendered_buffer)]_vars


\* C28: in one tick the catch-up skipping removes at most
\* min(frames_to_skip - 1, cap) frames, the cap being 5 on the raw path and 3
\* on the pre-rendered path, and it is entered only when the loop is more
\* than one frame behind.
C28_SkipBound ==
  /\ [](/\ pcMain \in {"skip", "rskip"} => frames_to_skip > 1
        /\ tick_removed > 0 => tick_removed <= Min(frames_to_skip - 1, RawSkipCap))
  /\ [][/\ (pcMain = "skip" /\ callLeft' # callLeft /\ Len(buffer') < Len(buffer))
             => tick_removed + 1 <= Min(frames_to_skip - 1, RawSkipCap)
        /\ (pcMain = "rskip" /\ callLeft' # callLeft
               /\ Len(rendered_buffer') < Len(rendered_buffer))
             => tick_removed + 1 <= Min(frames_to_skip - 1, RenderedSkipCap)]_vars

\* More than RawSkipCap + 1 frames behind, a tick has removed RawSkipCap raw
\* frames and its catch-up loop is over.
C28_Witness ==
  /\ pcMain = "get"
  /\ tick_removed = RawSkipCap
  /\ frames_to_skip - 1 > RawSkipCap


\* C29: a sync point under sustained overload (actual_fps below the threshold
\* and a drift above 0.5 s) applies no correction: whatever the capability
\* tier, drift_correction keeps the value it had before the sync point.
C29_OverloadKeepsCorrection ==
  \A drift \in Drifts :
    drift > OverloadDrift
      => AdjustedCorrection(drift_correction, drift, TRUE) = drift_correction


\* C30: while the worker of the current run is in its per-frame loop, the
\* persisted grid files are exactly those of the frames 0..k-1 with
\* k = processed_frames, with no gap, also after a failed write.
C30_PersistedPrefix ==
  \A r \in Runs :
    (r = render_thread /\ InLoop(r))
      => persisted = 0..(processed_frames - 1)


\* C31: a query of the memory guard does not sample: a call of is_memory_safe
\* leaves current_usage, peak_usage and last_check_time as they were.
C31_QueryDoesNotSample ==
  [][CallIsMemorySafe
       => UNCHANGED <<current_usage, peak_usage, last_check_time>>]_vars


\* C38: in every state of the MemoryMonitor peak_usage >= current_usage, and
\* peak_usage never decreases, however the monitoring worker's sampling and a
\* caller's check_memory interleave.
C38_PeakBoundsCurrent ==
  /\ [](peak_usage >= current_usage)
  /\ [][peak_usage' >= peak_usage]_vars


\* C32: whatever get_frame calls were made, a front cache holds no more
\* entries than its capacity: 100 for CompleteVideoRenderer.frame_cache, 15
\* for VideoManager.frame_cache.
C32_CacheWithinCapacity ==
  /\ Len(frame_cache) <= CvrCacheLimit
  /\ Len(vm_frame_cache) <= VmCacheLimit


\* C39: get_frame(i) returns the grid the current run persisted for i, or
\* None; never a grid of an earlier run: a grid it returns was loaded from
\* the directory of the current run, where its file is.
C39_GridOfCurrentRun ==
  [][CallCvrGetFrame(BOOLEAN)
       => \/ cvrGot' = NoGrid
          \/ cvrGot'[2] = cvrRuns /\ cvrAsked' \in persisted]_vars


\* C34: whatever start_rendering and cancel_rendering calls were made, at most
\* one pre-render worker is running, also after a join that timed out.
C34_OneRenderWorker == Cardinality({r \in Runs : Alive(r)}) <= 1


\* C40: the grid the worker persists under index i is computed from the image
\* of frame i, on the high-quality path, on the standard path and after a
\* fallback; never from the processed image of an earlier frame.
C40_GridFromOwnFrame ==
  [][\A r \in Runs :
       (pcRender[r] = "process" /\ pcRender'[r] # "process"
          /\ frameIdx[r] \notin persisted /\ frameIdx[r] \in persisted')
         => processed_img'[r] = frameIdx[r]]_vars


\* C33: whatever start_extraction and stop calls were made, at most one
\* production worker is active, and a worker of an earlier start puts no
\* frame into the buffer, does not clear is_extracting and does not terminate
\* the decoder process of the latest start.
C33_OneProducer ==
  /\ [](Cardinality({w \in Workers : pcProd[w] \notin {"idle", "done"}}) <= 1)
  /\ [][\A w \in Workers :
          (w < started /\ pcProd'[w] # pcProd[w])
            => /\ buffer' = buffer
               /\ is_extracting => is_extracting'
               /\ procAlive'[started] = procAlive[started]]_vars


\* C36: once stop() has returned the frame buffer is empty and stays empty,
\* however the stop interleaved with a put of the production worker.
C36_EmptyAfterStop == stopReturned => buffer = <<>>


\* Frames a queue holds.
Held(q) == {q[k] : k \in 1..Len(q)}

\* C37: the smart pre-render worker loses no frame: when it has made its put
\* of a frame it took out of the main buffer, the frame is in the rendered
\* buffer or back in the main buffer, also when the rendered buffer is full
\* at that moment.
C37_NoFrameLost ==
  [][(pcPre = "render" /\ pcPre' # "render")
       => preFrame \in Held(rendered_buffer') \cup Held(buffer')]_vars

====
